---- MODULE Spec2Model ----
(***************************************************************************)
(* Model of the research agent's orchestration loop                        *)
(* (backend/agents/research_agent.py) and of the streaming model adapter's *)
(* retry loop (backend-qwen/llm/oai.py).                                   *)
(*                                                                         *)
(* Text is modelled as a sequence of tokens.  A token is one of the two    *)
(* answer delimiters, a whitespace character, or an opaque piece of text.  *)
(* Neither delimiter is a substring of the other and they cannot overlap,  *)
(* so str.find / slicing on characters and on tokens agree on order.       *)
(***************************************************************************)
EXTENDS Integers, Sequences, FiniteSets, TLC

\* Largest max_llm_calls an agent is constructed with.
MaxIter == 2

----------------------------------------------------------------------------
(* Text helpers *)

OpenTag  == "<answer>"
CloseTag == "</answer>"
WS       == " "

\* `tok in content`
Contains(content, tok) == \E i \in 1..Len(content) : content[i] = tok

\* content.find(tok): 1-based index of the first occurrence, 0 when absent
\* (Python returns the 0-based offset, -1 when absent).
Find(content, tok) ==
    IF Contains(content, tok)
    THEN CHOOSE i \in 1..Len(content) :
            /\ content[i] = tok
            /\ \A j \in 1..(i - 1) : content[j] # tok
    ELSE 0

\* str.strip(): drop leading and trailing whitespace.
strip(text) ==
    LET keep == {i \in 1..Len(text) : text[i] # WS}
    IN  IF keep = {} THEN <<>>
        ELSE LET lo == CHOOSE i \in keep : \A j \in keep : i <= j
                 hi == CHOOSE i \in keep : \A j \in keep : j <= i
             IN  SubSeq(text, lo, hi)

----------------------------------------------------------------------------
(* Messages *)

NoId == "none"

SystemMessage(c) ==
    [type |-> "system", content |-> c, tool_calls |-> <<>>, tool_call_id |-> NoId]
HumanMessage(c) ==
    [type |-> "human", content |-> c, tool_calls |-> <<>>, tool_call_id |-> NoId]
AIMessage(c, calls, id) ==
    [type |-> "ai", content |-> c, tool_calls |-> calls, tool_call_id |-> id]

\* Optional[str]
None    == [some |-> FALSE, val |-> <<>>]
Some(v) == [some |-> TRUE, val |-> v]

SystemPrompt    == <<"SYSTEM_PROMPT">>
ThinkingPrompt  == <<"<think>">>
Query           == <<"query">>
LimitNotice     ==
    <<"Research completed due to iteration limit. Please review the gathered information.">>
FailurePrefix   == "Research failed due to error: "

----------------------------------------------------------------------------
(* Tool registry (backend/tools/__init__.py) *)

ToolNames ==
    {"search", "visit", "google_scholar", "python_interpreter", "local_file_search"}

NoTool == "None"

\* get_tool_by_name: the tool whose name matches, None otherwise.  A tool is
\* identified by its name.
get_tool_by_name(name) == IF name \in ToolNames THEN name ELSE NoTool

----------------------------------------------------------------------------
(* What the language model and the tools may do: the inputs of a session *)

ToolCall(n, i) == [name |-> n, id |-> i]

\* The tool_calls lists a response may declare: none, one or two calls, with
\* registered and unregistered names in either order.
ModelToolCalls ==
    { <<>>,
      <<ToolCall("search", "c1")>>,
      <<ToolCall("bogus", "c1")>>,
      <<ToolCall("bogus", "c1"), ToolCall("search", "c2")>>,
      <<ToolCall("search", "c1"), ToolCall("bogus", "c2")>>,
      <<ToolCall("search", "c1"), ToolCall("python_interpreter", "c2")>> }

\* The contents a response may carry: empty, plain text, a delimited answer
\* (bare, padded with whitespace, with text around it, empty), the closing
\* delimiter before the opening one, and an opening delimiter alone.
ModelContents ==
    { <<>>,
      <<"x">>,
      <<OpenTag, "x", CloseTag>>,
      <<OpenTag, WS, "x", WS, "y", WS, CloseTag, "z">>,
      <<"w", OpenTag, "x", CloseTag>>,
      <<OpenTag, CloseTag>>,
      <<CloseTag, "x", OpenTag>>,
      <<OpenTag, "x">> }

Response(c, calls) == [raises |-> FALSE, content |-> c, tool_calls |-> calls, error |-> ""]
LLMException(e)    == [raises |-> TRUE, content |-> <<>>, tool_calls |-> <<>>, error |-> e]

\* llm_with_tools.invoke either returns an AIMessage or raises.  A message
\* carries any of the contents alone; tool calls come with an empty content,
\* as function-calling models send them, or together with a delimited answer.
ModelResponses ==
    {Response(c, <<>>) : c \in ModelContents}
        \cup {Response(c, calls) : c \in {<<>>, <<OpenTag, "x", CloseTag>>},
                                   calls \in ModelToolCalls}
        \cup {LLMException("llm down")}

NoResponse == LLMException("")

\* tool.execute(**args): ToolResult(success=True), ToolResult(success=False)
\* or an exception.
ToolOutcomes == {"ok", "fail", "raise"}

ResultContent == <<"result">>
ResultError   == "bad arguments"
RaisedError   == "timeout"

\* One outcome per declared call; an unregistered name is never executed, so
\* its outcome is immaterial and fixed.
OutcomesFor(tool_calls) ==
    { o \in [1..Len(tool_calls) -> ToolOutcomes] :
        \A i \in 1..Len(tool_calls) :
            get_tool_by_name(tool_calls[i].name) = NoTool => o[i] = "ok" }

----------------------------------------------------------------------------
(* State *)

VARIABLES
    state,          \* the ResearchState of the session
    pc,             \* the graph node to run next, "END", or "returned"
    result,         \* the dict research() returns
    max_llm_calls,  \* ResearchAgent.max_llm_calls
    reasoning,      \* ResearchAgent.reasoning
    llm_calls,      \* number of llm_with_tools.invoke calls made
    llm_failed,     \* whether an invoke call raised
    llm_input,      \* the message list passed to the last invoke call
    dispatch_turns, \* number of tool_executor_execute runs
    llm_provider,   \* settings.llm_provider: which client the factory built
    cancelled       \* whether the task running research() has been cancelled

agent_vars == <<state, pc, result, max_llm_calls, reasoning, llm_calls, llm_failed,
                llm_input, dispatch_turns, llm_provider, cancelled>>

\* One _chat_stream call of the model adapter (backend-qwen/llm/oai.py).
VARIABLES
    chat_pc,        \* "idle", "retry", "delta", "aggregate", "finished", "raised"
    delta_stream,   \* the delta_stream argument
    attempt,        \* the retry loop's index
    provider_calls, \* number of _chat_complete_create calls made
    rate_limits,    \* number of those calls that raised RateLimitError
    sleeps,         \* number of time.sleep calls made
    delay,          \* the delay of the last time.sleep call, 0 before the first
    raised,         \* the exception the call ended with, "none" otherwise
    chunks_seen,    \* number of chunks read from the provider's stream
    full_response,
    full_reasoning_content,
    content_buffer,
    reasoning_content_buffer,
    yielded,        \* the messages yielded so far
    chat_messages,  \* messages, as converted before the retry loop
    generate_cfg,   \* the generate_cfg argument
    provider_log,   \* one entry per _chat_complete_create call made
    consumed        \* the chunks read from the provider's stream

chat_vars == <<chat_pc, delta_stream, attempt, provider_calls, rate_limits, sleeps,
               delay, raised, chunks_seen, full_response, full_reasoning_content,
               content_buffer, reasoning_content_buffer, yielded, chat_messages,
               generate_cfg, provider_log, consumed>>

\* One extract_sources_from_tool_output call (backend-qwen/api/research.py).
VARIABLES
    extract_pc,     \* "idle", "call", "returned"
    tool_output,    \* the tool_output argument
    extracted       \* the list the call returned

extract_vars == <<extract_pc, tool_output, extracted>>

\* One stream_research_results run (backend-qwen/api/research.py).
VARIABLES
    stream_pc,      \* "idle", "start", "next_batch", "message", "sleep", "done"
    qwen_messages,  \* the messages handed to research_agent._run
    agent_log,      \* every message research_agent._run has yielded, in order
    batch,          \* what is left of response_batch, the current message first
    sources,        \* the local list sources
    events,         \* the events yielded so far
    uuids,          \* number of uuid.uuid4() calls made
    stream_raised   \* "none", or where the exception the run caught was raised

stream_vars == <<stream_pc, qwen_messages, agent_log, batch, sources, events, uuids,
                 stream_raised>>

\* The server's event loop with the streaming sessions it runs as tasks
\* (backend-qwen/api/research.py, backend-qwen/llm/oai.py).
VARIABLES
    loop_thread,    \* the session whose task runs on the loop's thread, 0 for none
    task_pc,        \* per session: "idle", "start", "calling", "backoff",
                    \* "suspended", "done"
    task_attempt,   \* per session: the retry loop's index
    task_events     \* per session: number of message events yielded

loop_vars == <<loop_thread, task_pc, task_attempt, task_events>>

\* One call of a helper function of the API layer or of a tool.
VARIABLES
    call_pc,        \* "idle", "call", "converted", "returned", "raised"
    call_fn,        \* the function called
    call_args,      \* its arguments
    call_result     \* what it returned

call_vars == <<call_pc, call_fn, call_args, call_result>>

\* Two research() calls that run at the same time as tasks of one event loop,
\* on the agent the server built at startup (backend/main.py), with the
\* process's standard output (backend/tools/python_interpreter.py).
VARIABLES
    tasks,          \* per session: its node, its ResearchState and the locals of
                    \* a PythonInterpreterTool.execute call in progress
    sys_stdout,     \* sys.stdout: 0 for the process's stream, s for the capture
                    \* buffer of session s
    console         \* what has been written to the process's stream

pair_vars == <<tasks, sys_stdout, console>>

api_vars == <<extract_vars, stream_vars, loop_vars, call_vars, pair_vars>>

vars == <<agent_vars, chat_vars, api_vars>>

\* _get_llm_factory: DeepResearchOllama for "ollama", DeepResearchLLM otherwise.
LLMProviders == {"ollama", "openai"}

NoResult ==
    [returned |-> FALSE, success |-> FALSE, final_answer |-> None,
     tools_used |-> <<>>, iterations |-> 0, is_complete |-> FALSE]

\* research(): the initial_state handed to graph.ainvoke.
initial_state ==
    [messages       |-> <<HumanMessage(Query)>>,
     current_task   |-> Query,
     tools_used     |-> <<>>,
     iteration_count |-> 0,
     max_iterations |-> max_llm_calls,
     final_answer   |-> None,
     is_complete    |-> FALSE]

\* No _chat_stream call is in progress.
ChatIdle ==
    /\ chat_pc = "idle"
    /\ delta_stream = FALSE
    /\ attempt = 0
    /\ provider_calls = 0
    /\ rate_limits = 0
    /\ sleeps = 0
    /\ delay = 0
    /\ raised = "none"
    /\ chunks_seen = 0
    /\ full_response = <<>>
    /\ full_reasoning_content = <<>>
    /\ content_buffer = <<>>
    /\ reasoning_content_buffer = <<>>
    /\ yielded = <<>>
    /\ chat_messages = <<>>
    /\ generate_cfg = {}
    /\ provider_log = <<>>
    /\ consumed = <<>>

\* The text "": also the argument of an extraction that is not running.
EmptyText == [json |-> FALSE, value |-> [list |-> FALSE, items |-> <<>>], tokens |-> <<>>]

\* No extract_sources_from_tool_output call is in progress.
ExtractIdle ==
    /\ extract_pc = "idle"
    /\ tool_output = EmptyText
    /\ extracted = <<>>

\* No stream_research_results run is in progress.
StreamIdle ==
    /\ stream_pc = "idle"
    /\ qwen_messages = <<>>
    /\ agent_log = <<>>
    /\ batch = <<>>
    /\ sources = <<>>
    /\ events = <<>>
    /\ uuids = 0
    /\ stream_raised = "none"

\* The sessions that stream at the same time.
Sessions == {1, 2}

\* No session is streaming.
LoopIdle ==
    /\ loop_thread = 0
    /\ task_pc = [s \in Sessions |-> "idle"]
    /\ task_attempt = [s \in Sessions |-> 0]
    /\ task_events = [s \in Sessions |-> 0]

\* No helper call is in progress.
CallIdle ==
    /\ call_pc = "idle"
    /\ call_fn = "none"
    /\ call_args = <<>>
    /\ call_result = <<>>

\* No pair of sessions is running.
PairIdle ==
    /\ tasks = <<>>
    /\ sys_stdout = 0
    /\ console = <<>>

ApiIdle == ExtractIdle /\ StreamIdle /\ LoopIdle /\ CallIdle /\ PairIdle

Init ==
    /\ ChatIdle
    /\ ApiIdle
    /\ max_llm_calls \in 1..MaxIter
    /\ reasoning \in BOOLEAN
    /\ state = initial_state
    /\ pc = "researcher_initialize"
    /\ result = NoResult
    /\ llm_calls = 0
    /\ llm_failed = FALSE
    /\ llm_input = <<>>
    /\ dispatch_turns = 0
    /\ llm_provider \in LLMProviders
    /\ cancelled = FALSE

----------------------------------------------------------------------------
(* Graph nodes *)

\* Only the head of the log is looked at for a system message.
researcher_initialize_head(s) ==
    [s EXCEPT
        !.messages = IF @ # <<>> /\ @[1].type = "system"
                     THEN @
                     ELSE <<SystemMessage(SystemPrompt)>> \o @,
        !.tools_used = <<>>,
        !.iteration_count = 0,
        !.max_iterations = max_llm_calls,
        !.is_complete = FALSE]

researcher_initialize(s) ==
    [s EXCEPT
        !.messages = IF \E i \in 1..Len(@) : @[i].type = "system"
                     THEN @
                     ELSE <<SystemMessage(SystemPrompt)>> \o @,
        !.tools_used = <<>>,
        !.iteration_count = 0,
        !.max_iterations = max_llm_calls,
        !.is_complete = FALSE]

\* Off by one: the budget check lets one more call through.
BudgetExhausted_late(iteration_count) == iteration_count > max_llm_calls

\* "Check if we've exceeded max iterations"
BudgetExhausted(iteration_count) == iteration_count >= max_llm_calls

\* "Check if this is a final answer"
IsFinalAnswer(content) == Contains(content, OpenTag) /\ Contains(content, CloseTag)

\* "Extract final answer".  start is the index of the first token after the
\* opening delimiter and end the index of the closing delimiter, so that
\* content[start:end] is SubSeq(content, start, end - 1).
ExtractFinalAnswer(content) ==
    LET start == Find(content, OpenTag) + 1
        end   == Find(content, CloseTag)
    IN  IF end > start THEN strip(SubSeq(content, start, end - 1)) ELSE content

\* The message list given to the model.
current_messages(messages) ==
    IF reasoning THEN messages \o <<HumanMessage(ThinkingPrompt)>> ELSE messages

\* The budget branch writes the notice but does not end the session.
reason_limit_open(s) == [s EXCEPT !.final_answer = Some(LimitNotice)]

\* The budget branch forgets the notice.
reason_limit_silent(s) == [s EXCEPT !.is_complete = TRUE]

reason_limit(s) ==
    [s EXCEPT !.is_complete = TRUE, !.final_answer = Some(LimitNotice)]

\* The failure branch records the error but does not end the session.
reason_error_open(s, e) == [s EXCEPT !.final_answer = Some(<<FailurePrefix, e>>)]

reason_error(s, e) ==
    [s EXCEPT !.is_complete = TRUE, !.final_answer = Some(<<FailurePrefix, e>>)]

\* The response is added to the list that was given to the model.
reason_response_logged(s, response) ==
    LET new_messages ==
            Append(current_messages(s.messages),
                   AIMessage(response.content, response.tool_calls, NoId))
    IN  IF IsFinalAnswer(response.content)
        THEN [s EXCEPT !.messages = new_messages,
                       !.iteration_count = @ + 1,
                       !.final_answer = Some(ExtractFinalAnswer(response.content)),
                       !.is_complete = TRUE]
        ELSE [s EXCEPT !.messages = new_messages,
                       !.iteration_count = @ + 1]

\* A response with no content and no tool calls does not count as an
\* iteration.
reason_response_free(s, response) ==
    LET new_messages ==
            Append(s.messages, AIMessage(response.content, response.tool_calls, NoId))
    IN  IF IsFinalAnswer(response.content)
        THEN [s EXCEPT !.messages = new_messages,
                       !.iteration_count = @ + 1,
                       !.final_answer = Some(ExtractFinalAnswer(response.content)),
                       !.is_complete = TRUE]
        ELSE IF response.content = <<>> /\ response.tool_calls = <<>>
        THEN [s EXCEPT !.messages = new_messages]
        ELSE [s EXCEPT !.messages = new_messages,
                       !.iteration_count = @ + 1]

reason_response(s, response) ==
    LET new_messages ==
            Append(s.messages, AIMessage(response.content, response.tool_calls, NoId))
    IN  IF IsFinalAnswer(response.content)
        THEN [s EXCEPT !.messages = new_messages,
                       !.iteration_count = @ + 1,
                       !.final_answer = Some(ExtractFinalAnswer(response.content)),
                       !.is_complete = TRUE]
        ELSE [s EXCEPT !.messages = new_messages,
                       !.iteration_count = @ + 1]

ResearchPrompt == "RESEARCH_PROMPT"
CurrentDate    == "Current date: today"

\* f"{self._system_prompt}\n\nCurrent date: {current_date}\n\n{content}"
enhanced_content(content) == <<ResearchPrompt, CurrentDate>> \o content

\* DeepResearchOllama.invoke, before it calls the parent: the list it was
\* given, as it leaves it.  The first message is changed in place when it is
\* a system message, otherwise a system message is inserted in the list.
ollama_preprocess(input) ==
    IF input = <<>> THEN input
    ELSE IF input[1].type = "system"
    THEN [input EXCEPT ![1].content = enhanced_content(@)]
    ELSE <<SystemMessage(<<ResearchPrompt, CurrentDate>>)>> \o input

\* state["messages"] once invoke(current_messages) has run.  current_messages
\* holds the message objects of state["messages"], and is that very list when
\* reasoning is off.  DeepResearchLLM builds dicts and leaves its input alone.
messages_after_invoke(messages) ==
    IF llm_provider # "ollama" THEN messages
    ELSE IF ~reasoning THEN ollama_preprocess(messages)
    ELSE IF messages # <<>> /\ messages[1].type = "system"
    THEN [messages EXCEPT ![1].content = enhanced_content(@)]
    ELSE messages

\* response is what invoke does when it is called; it is not called when the
\* budget is exhausted.
researcher_reason(s, response) ==
    IF BudgetExhausted(s.iteration_count) THEN reason_limit(s)
    ELSE LET invoked == [s EXCEPT !.messages = messages_after_invoke(@)]
         IN  IF response.raises THEN reason_error(invoked, response.error)
             ELSE reason_response(invoked, response)

\* The not-found message does not say which tool was asked for.
execute_tool_call_anonymous(acc, tool_call, outcome) ==
    LET tool_name == tool_call.name
        tool      == get_tool_by_name(tool_name)
    IN  IF tool = NoTool
        THEN [acc EXCEPT !.messages =
                Append(@, AIMessage(<<"Tool not found">>, <<>>, tool_call.id))]
        ELSE IF outcome = "raise"
        THEN [acc EXCEPT !.messages =
                Append(@, AIMessage(<<"Tool execution failed: ", RaisedError>>, <<>>,
                                    tool_call.id))]
        ELSE [acc EXCEPT
                !.messages =
                    Append(@, AIMessage(IF outcome = "ok"
                                        THEN ResultContent
                                        ELSE <<"Tool error: ", ResultError>>,
                                        <<>>, tool_call.id)),
                !.tools_used = Append(@, tool_name)]

\* The name is recorded only when the result is a success.
execute_tool_call_success_only(acc, tool_call, outcome) ==
    LET tool_name == tool_call.name
        tool      == get_tool_by_name(tool_name)
    IN  IF tool = NoTool
        THEN [acc EXCEPT !.messages =
                Append(@, AIMessage(<<"Tool '", tool_name, "' not found">>, <<>>,
                                    tool_call.id))]
        ELSE IF outcome = "raise"
        THEN [acc EXCEPT !.messages =
                Append(@, AIMessage(<<"Tool execution failed: ", RaisedError>>, <<>>,
                                    tool_call.id))]
        ELSE IF outcome = "ok"
        THEN [acc EXCEPT !.messages = Append(@, AIMessage(ResultContent, <<>>, tool_call.id)),
                         !.tools_used = Append(@, tool_name)]
        ELSE [acc EXCEPT !.messages =
                Append(@, AIMessage(<<"Tool error: ", ResultError>>, <<>>, tool_call.id))]

\* One iteration of the loop over tool_calls; acc holds new_messages and
\* tools_used.
execute_tool_call(acc, tool_call, outcome) ==
    LET tool_name == tool_call.name
        tool      == get_tool_by_name(tool_name)
    IN  IF tool = NoTool
        THEN [acc EXCEPT !.messages =
                Append(@, AIMessage(<<"Tool '", tool_name, "' not found">>, <<>>,
                                    tool_call.id))]
        ELSE IF outcome = "raise"
        THEN [acc EXCEPT !.messages =
                Append(@, AIMessage(<<"Tool execution failed: ", RaisedError>>, <<>>,
                                    tool_call.id))]
        ELSE [acc EXCEPT
                !.messages =
                    Append(@, AIMessage(IF outcome = "ok"
                                        THEN ResultContent
                                        ELSE <<"Tool error: ", ResultError>>,
                                        <<>>, tool_call.id)),
                !.tools_used = Append(@, tool_name)]

\* No try/except around tool.execute: the first exception ends the loop.
RECURSIVE run_tool_calls_unguarded(_, _, _, _)
run_tool_calls_unguarded(acc, tool_calls, outcomes, i) ==
    IF i > Len(tool_calls) THEN acc
    ELSE IF get_tool_by_name(tool_calls[i].name) # NoTool /\ outcomes[i] = "raise"
    THEN acc
    ELSE run_tool_calls_unguarded(execute_tool_call(acc, tool_calls[i], outcomes[i]),
                                  tool_calls, outcomes, i + 1)

RECURSIVE run_tool_calls(_, _, _, _)
run_tool_calls(acc, tool_calls, outcomes, i) ==
    IF i > Len(tool_calls) THEN acc
    ELSE run_tool_calls(execute_tool_call(acc, tool_calls[i], outcomes[i]),
                        tool_calls, outcomes, i + 1)

last_tool_calls(messages) ==
    IF messages # <<>> /\ messages[Len(messages)].type = "ai"
    THEN messages[Len(messages)].tool_calls
    ELSE <<>>

\* Only the first declared call is executed.
tool_executor_execute_first(s, outcomes) ==
    IF last_tool_calls(s.messages) = <<>> THEN s
    ELSE LET acc == run_tool_calls([messages |-> s.messages, tools_used |-> s.tools_used],
                                   SubSeq(last_tool_calls(s.messages), 1, 1), outcomes, 1)
         IN  [s EXCEPT !.messages = acc.messages, !.tools_used = acc.tools_used]

tool_executor_execute(s, outcomes) ==
    IF last_tool_calls(s.messages) = <<>> THEN s
    ELSE LET acc == run_tool_calls([messages |-> s.messages, tools_used |-> s.tools_used],
                                   last_tool_calls(s.messages), outcomes, 1)
         IN  [s EXCEPT !.messages = acc.messages, !.tools_used = acc.tools_used]

\* The controller does not look at is_complete.
workflow_controller_decide_next_blind(s) ==
    IF last_tool_calls(s.messages) # <<>> THEN "tool_executor_execute"
    ELSE "researcher_reason"

workflow_controller_decide_next(s) ==
    IF s.is_complete THEN "end"
    ELSE IF last_tool_calls(s.messages) # <<>> THEN "tool_executor_execute"
    ELSE "researcher_reason"

\* The mapping of add_conditional_edges.
ConditionalEdge(label) == IF label = "end" THEN "END" ELSE label

----------------------------------------------------------------------------
(* Steps of one research() call *)

Unchanged_agent ==
    UNCHANGED <<max_llm_calls, reasoning, llm_provider, cancelled, chat_vars, api_vars>>

Step_researcher_initialize ==
    /\ pc = "researcher_initialize"
    /\ state' = researcher_initialize(state)
    /\ pc' = "researcher_reason"
    /\ UNCHANGED <<result, llm_calls, llm_failed, llm_input, dispatch_turns>>
    /\ Unchanged_agent

Step_researcher_reason ==
    /\ pc = "researcher_reason"
    /\ \/ /\ BudgetExhausted(state.iteration_count)
          /\ state' = researcher_reason(state, NoResponse)
          /\ UNCHANGED <<llm_calls, llm_failed, llm_input>>
       \/ /\ ~BudgetExhausted(state.iteration_count)
          /\ \E response \in ModelResponses :
                /\ state' = researcher_reason(state, response)
                /\ llm_failed' = (llm_failed \/ response.raises)
          /\ llm_calls' = llm_calls + 1
          /\ llm_input' = current_messages(state.messages)
    /\ pc' = ConditionalEdge(workflow_controller_decide_next(state'))
    /\ UNCHANGED <<result, dispatch_turns>>
    /\ Unchanged_agent

Step_tool_executor_execute ==
    /\ pc = "tool_executor_execute"
    /\ \E outcomes \in OutcomesFor(last_tool_calls(state.messages)) :
            state' = tool_executor_execute(state, outcomes)
    /\ dispatch_turns' = dispatch_turns + 1
    /\ pc' = "researcher_reason"
    /\ UNCHANGED <<result, llm_calls, llm_failed, llm_input>>
    /\ Unchanged_agent

\* graph.ainvoke returned final_state: research() builds its result.
research_return ==
    /\ pc = "END"
    /\ result' = [returned     |-> TRUE,
                  success      |-> TRUE,
                  final_answer |-> state.final_answer,
                  tools_used   |-> state.tools_used,
                  iterations   |-> state.iteration_count,
                  is_complete  |-> state.is_complete]
    /\ pc' = "returned"
    /\ UNCHANGED <<state, llm_calls, llm_failed, llm_input, dispatch_turns>>
    /\ Unchanged_agent

Next ==
    \/ Step_researcher_initialize
    \/ Step_researcher_reason
    \/ Step_tool_executor_execute
    \/ research_return

Spec == Init /\ [][Next]_vars

\* The graph runtime runs the next node as long as there is one.
FairSpec == Spec /\ WF_vars(Next)

----------------------------------------------------------------------------
(* The entry node applied to any state the graph may be invoked with *)

CustomPrompt == <<"custom system prompt">>

\* The logs of the states considered: empty, a query, a system message
\* before or after the query, and a query with an earlier response.
InputLogs ==
    { <<>>,
      <<HumanMessage(Query)>>,
      <<SystemMessage(CustomPrompt), HumanMessage(Query)>>,
      <<HumanMessage(Query), SystemMessage(CustomPrompt)>>,
      <<HumanMessage(Query), AIMessage(<<"x">>, <<>>, NoId)>> }

InputStates ==
    [messages        : InputLogs,
     current_task    : {Query},
     tools_used      : {<<>>, <<"search">>},
     iteration_count : 0..MaxIter,
     max_iterations  : 1..MaxIter,
     final_answer    : {None, Some(<<"old">>)},
     is_complete     : BOOLEAN]

NodeInit ==
    /\ ChatIdle
    /\ ApiIdle
    /\ max_llm_calls \in 1..MaxIter
    /\ reasoning = FALSE
    /\ llm_provider = "openai"
    /\ cancelled = FALSE
    /\ state \in InputStates
    /\ pc = "researcher_initialize"
    /\ result = NoResult
    /\ llm_calls = 0
    /\ llm_failed = FALSE
    /\ llm_input = <<>>
    /\ dispatch_turns = 0

NodeNext == Step_researcher_initialize

NodeSpec == NodeInit /\ [][NodeNext]_vars

----------------------------------------------------------------------------
(* Cancellation of the task that runs research() *)

\* The cancellation is caught like a failure of the tool: every pending call
\* gets a failure message and the workflow goes on.
on_cancel_caught(s) ==
    [pc    |-> "researcher_reason",
     state |-> tool_executor_execute(s,
                  [i \in 1..Len(last_tool_calls(s.messages)) |->
                      IF get_tool_by_name(last_tool_calls(s.messages)[i].name) = NoTool
                      THEN "ok" ELSE "raise"])]

\* asyncio raises CancelledError at `await tool.execute(**tool_args)`.  It is
\* a BaseException, so neither `except Exception` around the call nor the one
\* in research() catches it: the node returns no state, graph.ainvoke and
\* research() end with the CancelledError and build no result.
on_cancel(s) == [pc |-> "cancelled", state |-> s]

Step_cancel ==
    /\ pc = "tool_executor_execute"
    /\ ~cancelled
    /\ cancelled' = TRUE
    /\ pc' = on_cancel(state).pc
    /\ state' = on_cancel(state).state
    /\ UNCHANGED <<result, llm_calls, llm_failed, llm_input, dispatch_turns,
                   max_llm_calls, reasoning, llm_provider, chat_vars, api_vars>>

CancelNext ==
    \/ Step_researcher_initialize
    \/ Step_researcher_reason
    \/ Step_tool_executor_execute
    \/ research_return
    \/ Step_cancel

CancelSpec == Init /\ [][CancelNext]_vars

----------------------------------------------------------------------------
(* The streaming model adapter: TextChatAtOAI._chat_stream *)

\* Largest number of chunks a provider stream delivers.
MaxChunks == 2

MAX_RETRIES         == 5
INITIAL_DELAY       == 2
CONTENT_THRESHOLD   == 50
REASONING_THRESHOLD == 50

\* Streamed text is a sequence of pieces: single characters, among them the
\* newline, a run of 49 characters without a newline, and the pieces of a
\* rendered tool call.
Newline      == "\n"
Run49        == "run of 49 characters"
ToolCallOpen == "<tool_call>"
ToolCallEnd  == "</tool_call>"
FunctionJson == "{\"name\": \"search\", \"arguments\": {}}"

PieceLen(piece) ==
    IF piece = Run49 THEN 49
    ELSE IF piece = ToolCallOpen THEN 11
    ELSE IF piece = ToolCallEnd THEN 12
    ELSE IF piece = FunctionJson THEN 35
    ELSE 1

\* len(text)
RECURSIVE TextLen(_)
TextLen(text) == IF text = <<>> THEN 0 ELSE PieceLen(Head(text)) + TextLen(Tail(text))

\* '\n' in text
HasNewline(text) == Contains(text, Newline)

\* Message(role=ASSISTANT, content=..., reasoning_content=...)
Message(c, r) == [content |-> c, reasoning_content |-> r]

\* A chunk of the provider's stream.  choices is false for a chunk with an
\* empty choices list.  reasoning is the delta's reasoning text (read from
\* delta.reasoning_content when delta_stream is set, from delta.reasoning
\* otherwise).  tool is "none", "call" for a tool-call delta whose arguments
\* are a JSON document, "bad_json" for one whose arguments json.loads rejects.
Chunk(c, r, t) == [choices |-> TRUE, content |-> c, reasoning |-> r, tool |-> t]
EmptyChunk     == [choices |-> FALSE, content |-> <<>>, reasoning |-> <<>>, tool |-> "none"]

ChunkSet ==
    {EmptyChunk}
        \cup {Chunk(c, r, "none") : c \in {<<>>, <<"a">>, <<Newline>>, <<Run49>>},
                                    r \in {<<>>, <<"a">>, <<Run49>>}}
        \cup {Chunk(<<>>, <<Newline>>, "none")}
        \cup {Chunk(c, <<>>, t) : c \in {<<>>, <<"a">>}, t \in {"call", "bad_json"}}

\* What one _chat_complete_create call does: it returns a stream, raises
\* RateLimitError, or raises another OpenAIError.
ProviderOutcomes == {"ok", "rate_limit", "openai_error"}

\* random.uniform(0, 1), at its two ends.
Jitters == {0, 1}

\* The messages handed to _chat_stream are records of a role and a content.
Think == "<think>\n"

QwenMessage(role, content) == [role |-> role, content |-> content]

\* content.replace("<think>\n<think>\n", "<think>\n\n"): occurrences are
\* replaced from the left and do not overlap.
RECURSIVE replace_think(_)
replace_think(content) ==
    IF Len(content) < 2 THEN content
    ELSE IF content[1] = Think /\ content[2] = Think
         THEN <<Think, Newline>> \o replace_think(SubSeq(content, 3, Len(content)))
         ELSE <<Head(content)>> \o replace_think(Tail(content))

\* SYSTEM_PROMPT + "Current date: " + str(today_date())
DatedSystemPrompt == <<"SYSTEM_PROMPT", "Current date: ", "today">>

\* convert_messages_to_dicts: the content of the first message is replaced
\* by the dated system prompt, then every content has its doubled think tag
\* rewritten.
convert_messages_to_dicts(messages) ==
    [i \in 1..Len(messages) |->
        [messages[i] EXCEPT
            !.content = replace_think(IF i = 1 THEN DatedSystemPrompt ELSE @)]]

\* A generate_cfg is a set of <<key, value>> pairs.
ExtraParams == {"top_k", "repetition_penalty"}

\* _chat_complete_create(**kwargs): kwargs is the callee's own dict.  The
\* extra parameters move into extra_body, request_timeout is renamed to
\* timeout, and the result is what client.chat.completions.create receives.
chat_complete_create_kwargs(kwargs) ==
    LET extra    == {kv \in kwargs : kv[1] \in ExtraParams}
        body     == {kv \in kwargs : kv[1] = "extra_body"}
        old_body == UNION {kv[2] : kv \in body}
        moved    == IF extra = {} THEN kwargs
                    ELSE ((kwargs \ extra) \ body)
                            \cup {<<"extra_body", old_body \cup extra>>}
    IN  {kv \in moved : kv[1] # "request_timeout"}
            \cup {<<"timeout", kv[2]>> : kv \in {x \in moved : x[1] = "request_timeout"}}

\* A retry sends only the messages that follow the system prompt.
chat_complete_create_trimmed(messages, cfg) ==
    [model    |-> "model",
     messages |-> IF attempt > 0 THEN Tail(messages) ELSE messages,
     stream   |-> TRUE,
     kwargs   |-> chat_complete_create_kwargs(cfg)]

\* "self._chat_complete_create(model=self.model, messages=messages,
\* stream=True, **generate_cfg)": the request the provider receives.
chat_complete_create(messages, cfg) ==
    [model    |-> "model",
     messages |-> messages,
     stream   |-> TRUE,
     kwargs   |-> chat_complete_create_kwargs(cfg)]

\* The arguments a _chat_stream call is made with.
ChatInputs ==
    { [messages |-> <<QwenMessage("system", <<"s">>), QwenMessage("user", <<"q">>)>>,
       generate_cfg |-> {<<"temperature", "0.6">>}],
      [messages |-> <<QwenMessage("system", <<"s">>), QwenMessage("user", <<"q">>),
                      QwenMessage("assistant", <<Think, Think, "a">>)>>,
       generate_cfg |-> {<<"temperature", "0.6">>, <<"top_k", "20">>,
                         <<"request_timeout", "30">>}] }

\* A _chat_stream call starts with attempt 0 of the retry loop.
ChatInit ==
    /\ chat_pc = "retry"
    /\ delta_stream \in BOOLEAN
    /\ attempt = 0
    /\ provider_calls = 0
    /\ rate_limits = 0
    /\ sleeps = 0
    /\ delay = 0
    /\ raised = "none"
    /\ chunks_seen = 0
    /\ full_response = <<>>
    /\ full_reasoning_content = <<>>
    /\ content_buffer = <<>>
    /\ reasoning_content_buffer = <<>>
    /\ yielded = <<>>
    /\ \E input \in ChatInputs :
        /\ chat_messages = convert_messages_to_dicts(input.messages)
        /\ generate_cfg = input.generate_cfg
    /\ provider_log = <<>>
    /\ consumed = <<>>
    /\ ApiIdle
    /\ max_llm_calls = 1
    /\ reasoning = FALSE
    /\ state = initial_state
    /\ pc = "idle"
    /\ result = NoResult
    /\ llm_calls = 0
    /\ llm_failed = FALSE
    /\ llm_input = <<>>
    /\ dispatch_turns = 0
    /\ llm_provider = "openai"
    /\ cancelled = FALSE

\* The last attempt is never recognised: the loop sleeps after it too.
IsLastAttempt_never(a) == a = MAX_RETRIES

\* "if attempt == MAX_RETRIES - 1"
IsLastAttempt(a) == a = MAX_RETRIES - 1

\* The delay grows by INITIAL_DELAY per attempt.
backoff_delay_linear(a, jitter) == INITIAL_DELAY * (a + 1) + jitter

\* "delay = INITIAL_DELAY * (2 ** attempt) + random.uniform(0, 1)"
backoff_delay(a, jitter) == INITIAL_DELAY * (2 ^ a) + jitter

\* Every failure is retried until the last attempt.
raises_service_error_lenient(outcome, a) == IsLastAttempt(a)

\* The except clauses of the retry loop: an OpenAIError that is not a
\* RateLimitError, and a RateLimitError on the last attempt, are re-raised as
\* ModelServiceError.
raises_service_error(outcome, a) ==
    \/ outcome = "openai_error"
    \/ outcome = "rate_limit" /\ IsLastAttempt(a)

Unchanged_stream ==
    UNCHANGED <<chunks_seen, full_response, full_reasoning_content, content_buffer,
                reasoning_content_buffer, yielded, consumed>>

\* One iteration of "for attempt in range(MAX_RETRIES)".  When the range is
\* used up without a break, response is still None and iterating it raises
\* TypeError.
chat_attempt ==
    /\ chat_pc = "retry"
    /\ IF attempt >= MAX_RETRIES
       THEN /\ raised' = "TypeError"
            /\ chat_pc' = "raised"
            /\ UNCHANGED <<attempt, provider_calls, rate_limits, sleeps, delay,
                           provider_log>>
       ELSE \E outcome \in ProviderOutcomes :
            /\ provider_calls' = provider_calls + 1
            /\ provider_log' =
                    Append(provider_log,
                           [request |-> chat_complete_create(chat_messages, generate_cfg),
                            outcome |-> outcome,
                            yielded_before |-> Len(yielded)])
            /\ rate_limits' = IF outcome = "rate_limit" THEN rate_limits + 1
                              ELSE rate_limits
            /\ IF outcome = "ok"
               THEN /\ chat_pc' = IF delta_stream THEN "delta" ELSE "aggregate"
                    /\ UNCHANGED <<attempt, sleeps, delay, raised>>
               ELSE IF raises_service_error(outcome, attempt)
               THEN /\ raised' = "ModelServiceError"
                    /\ chat_pc' = "raised"
                    /\ UNCHANGED <<attempt, sleeps, delay>>
               ELSE \E jitter \in Jitters :
                    /\ delay' = backoff_delay(attempt, jitter)
                    /\ sleeps' = sleeps + 1
                    /\ attempt' = attempt + 1
                    /\ UNCHANGED <<chat_pc, raised>>
    /\ Unchanged_stream
    /\ UNCHANGED <<delta_stream, chat_messages, generate_cfg, agent_vars, api_vars>>

Unchanged_retry ==
    UNCHANGED <<delta_stream, attempt, provider_calls, rate_limits, sleeps, delay,
                chat_messages, generate_cfg, provider_log, agent_vars, api_vars>>

\* The messages one chunk yields when delta_stream is set.
delta_messages(chunk) ==
    (IF chunk.reasoning # <<>> THEN <<Message(<<>>, chunk.reasoning)>> ELSE <<>>)
        \o (IF chunk.content # <<>> THEN <<Message(chunk.content, <<>>)>> ELSE <<>>)
        \o (IF chunk.tool = "call"
            THEN <<Message(<<ToolCallOpen, FunctionJson, ToolCallEnd>>, <<>>)>>
            ELSE <<>>)

\* One iteration of "for chunk in response" with delta_stream set.
chat_delta_chunk ==
    /\ chat_pc = "delta"
    /\ chunks_seen < MaxChunks
    /\ \E chunk \in ChunkSet :
        /\ chunks_seen' = chunks_seen + 1
        /\ consumed' = Append(consumed, chunk)
        /\ yielded' = IF chunk.choices THEN yielded \o delta_messages(chunk) ELSE yielded
        /\ IF chunk.choices /\ chunk.tool = "bad_json"
           THEN raised' = "JSONDecodeError" /\ chat_pc' = "raised"
           ELSE UNCHANGED <<raised, chat_pc>>
    /\ UNCHANGED <<full_response, full_reasoning_content, content_buffer,
                   reasoning_content_buffer>>
    /\ Unchanged_retry

\* A newline in the reasoning text does not flush.
should_flush_content_newline(cbuf, rbuf, new_content, new_reasoning) ==
    \/ TextLen(cbuf) >= CONTENT_THRESHOLD
    \/ TextLen(rbuf) >= REASONING_THRESHOLD
    \/ HasNewline(new_content)

\* The flush test at the end of an iteration of the aggregating loop.
should_flush(cbuf, rbuf, new_content, new_reasoning) ==
    \/ TextLen(cbuf) >= CONTENT_THRESHOLD
    \/ TextLen(rbuf) >= REASONING_THRESHOLD
    \/ HasNewline(new_content)
    \/ HasNewline(new_reasoning)

\* One iteration of "for chunk in response" without delta_stream.
chat_aggregate_chunk ==
    /\ chat_pc = "aggregate"
    /\ chunks_seen < MaxChunks
    /\ \E chunk \in ChunkSet :
        /\ chunks_seen' = chunks_seen + 1
        /\ consumed' = Append(consumed, chunk)
        /\ IF ~chunk.choices
           THEN UNCHANGED <<full_response, full_reasoning_content, content_buffer,
                            reasoning_content_buffer, yielded, raised, chat_pc>>
           ELSE LET new_content   == chunk.content
                    new_reasoning == chunk.reasoning
                    reasoning_all == full_reasoning_content \o new_reasoning
                    rbuf          == reasoning_content_buffer \o new_reasoning
                    response_text == full_response \o new_content
                    cbuf          == content_buffer \o new_content
                IN  IF chunk.tool = "bad_json"
                    THEN /\ full_reasoning_content' = reasoning_all
                         /\ reasoning_content_buffer' = rbuf
                         /\ full_response' = response_text
                         /\ content_buffer' = cbuf
                         /\ raised' = "JSONDecodeError"
                         /\ chat_pc' = "raised"
                         /\ UNCHANGED yielded
                    ELSE LET response_all ==
                                IF chunk.tool = "call"
                                THEN response_text
                                        \o <<ToolCallOpen, FunctionJson, ToolCallEnd>>
                                ELSE response_text
                             cbuf_all ==
                                IF chunk.tool = "call" THEN cbuf \o <<ToolCallOpen>>
                                ELSE cbuf
                             flush == should_flush(cbuf_all, rbuf, new_content,
                                                   new_reasoning)
                         IN  /\ full_reasoning_content' = reasoning_all
                             /\ full_response' = response_all
                             /\ yielded' = IF flush
                                           THEN Append(yielded,
                                                       Message(response_all, reasoning_all))
                                           ELSE yielded
                             /\ content_buffer' = IF flush THEN <<>> ELSE cbuf_all
                             /\ reasoning_content_buffer' = IF flush THEN <<>> ELSE rbuf
                             /\ UNCHANGED <<raised, chat_pc>>
    /\ Unchanged_retry

\* The provider's stream ends and what is still buffered is dropped.
chat_stream_end_silent ==
    /\ chat_pc \in {"delta", "aggregate"}
    /\ chat_pc' = "finished"
    /\ UNCHANGED <<chunks_seen, full_response, full_reasoning_content, content_buffer,
                   reasoning_content_buffer, raised, consumed, yielded>>
    /\ Unchanged_retry

\* The provider's stream ends: the loop is left and, when aggregating, what is
\* still buffered is yielded.
chat_stream_end ==
    /\ chat_pc \in {"delta", "aggregate"}
    /\ yielded' = IF chat_pc = "aggregate"
                     /\ (content_buffer # <<>> \/ reasoning_content_buffer # <<>>)
                  THEN Append(yielded, Message(full_response, full_reasoning_content))
                  ELSE yielded
    /\ chat_pc' = "finished"
    /\ UNCHANGED <<chunks_seen, full_response, full_reasoning_content, content_buffer,
                   reasoning_content_buffer, raised, consumed>>
    /\ Unchanged_retry

\* Reading the next chunk raises an OpenAIError: "except OpenAIError as ex:
\* raise ModelServiceError(exception=ex)".
chat_stream_error ==
    /\ chat_pc \in {"delta", "aggregate"}
    /\ raised' = "ModelServiceError"
    /\ chat_pc' = "raised"
    /\ UNCHANGED <<chunks_seen, full_response, full_reasoning_content, content_buffer,
                   reasoning_content_buffer, yielded, consumed>>
    /\ Unchanged_retry

ChatNext ==
    \/ chat_attempt
    \/ chat_delta_chunk
    \/ chat_aggregate_chunk
    \/ chat_stream_end
    \/ chat_stream_error

ChatSpec == ChatInit /\ [][ChatNext]_vars

\* The message of a non-streaming response: its content, and whether the
\* message object has a reasoning_content attribute.
NoStreamResponses ==
    { [content |-> <<"a">>, has_reasoning |-> FALSE, reasoning_content |-> <<>>],
      [content |-> <<"a">>, has_reasoning |-> TRUE, reasoning_content |-> <<"r">>],
      [content |-> <<>>, has_reasoning |-> TRUE, reasoning_content |-> <<"r">>] }

\* The positions of a _chat_no_stream call.
NoStreamPcs == {"no_stream", "no_stream_returned", "no_stream_raised"}

\* A _chat_no_stream call starts after convert_messages_to_dicts.
NoStreamInit ==
    /\ chat_pc = "no_stream"
    /\ delta_stream = FALSE
    /\ attempt = 0
    /\ provider_calls = 0
    /\ rate_limits = 0
    /\ sleeps = 0
    /\ delay = 0
    /\ raised = "none"
    /\ chunks_seen = 0
    /\ full_response = <<>>
    /\ full_reasoning_content = <<>>
    /\ content_buffer = <<>>
    /\ reasoning_content_buffer = <<>>
    /\ yielded = <<>>
    /\ \E input \in ChatInputs :
        /\ chat_messages = convert_messages_to_dicts(input.messages)
        /\ generate_cfg = input.generate_cfg
    /\ provider_log = <<>>
    /\ consumed = <<>>
    /\ ApiIdle
    /\ max_llm_calls = 1
    /\ reasoning = FALSE
    /\ state = initial_state
    /\ pc = "idle"
    /\ result = NoResult
    /\ llm_calls = 0
    /\ llm_failed = FALSE
    /\ llm_input = <<>>
    /\ dispatch_turns = 0
    /\ llm_provider = "openai"
    /\ cancelled = FALSE

\* "_chat_complete_create(model=self.model, messages=messages, stream=False,
\* **generate_cfg)"
no_stream_request(messages, cfg) ==
    [chat_complete_create(messages, cfg) EXCEPT !.stream = FALSE]

\* "return [Message(role=ASSISTANT, content=..., reasoning_content=...)]" when
\* the message has the attribute, "[Message(role=ASSISTANT, content=...)]"
\* otherwise.
no_stream_messages(response) ==
    IF response.has_reasoning
    THEN <<Message(response.content, response.reasoning_content)>>
    ELSE <<Message(response.content, <<>>)>>

\* A rate-limit signal makes the call again instead of raising.
chat_no_stream_retrying ==
    /\ chat_pc = "no_stream"
    /\ \E outcome \in ProviderOutcomes :
        /\ provider_calls' = provider_calls + 1
        /\ provider_log' =
                Append(provider_log,
                       [request |-> no_stream_request(chat_messages, generate_cfg),
                        outcome |-> outcome,
                        yielded_before |-> Len(yielded)])
        /\ rate_limits' = IF outcome = "rate_limit" THEN rate_limits + 1
                          ELSE rate_limits
        /\ IF outcome = "ok"
           THEN \E response \in NoStreamResponses :
                /\ yielded' = no_stream_messages(response)
                /\ chat_pc' = "no_stream_returned"
                /\ UNCHANGED raised
           ELSE IF outcome = "rate_limit"
           THEN UNCHANGED <<yielded, chat_pc, raised>>
           ELSE /\ raised' = "ModelServiceError"
                /\ chat_pc' = "no_stream_raised"
                /\ UNCHANGED yielded
    /\ UNCHANGED <<delta_stream, attempt, sleeps, delay, chat_messages, generate_cfg,
                   chunks_seen, full_response, full_reasoning_content, content_buffer,
                   reasoning_content_buffer, consumed, agent_vars, api_vars>>

\* _chat_no_stream: one call inside the try block; RateLimitError is an
\* OpenAIError, so "except OpenAIError" turns every provider error into
\* ModelServiceError.
chat_no_stream ==
    /\ chat_pc = "no_stream"
    /\ \E outcome \in ProviderOutcomes :
        /\ provider_calls' = provider_calls + 1
        /\ provider_log' =
                Append(provider_log,
                       [request |-> no_stream_request(chat_messages, generate_cfg),
                        outcome |-> outcome,
                        yielded_before |-> Len(yielded)])
        /\ rate_limits' = IF outcome = "rate_limit" THEN rate_limits + 1
                          ELSE rate_limits
        /\ IF outcome = "ok"
           THEN \E response \in NoStreamResponses :
                /\ yielded' = no_stream_messages(response)
                /\ chat_pc' = "no_stream_returned"
                /\ UNCHANGED raised
           ELSE /\ raised' = "ModelServiceError"
                /\ chat_pc' = "no_stream_raised"
                /\ UNCHANGED yielded
    /\ UNCHANGED <<delta_stream, attempt, sleeps, delay, chat_messages, generate_cfg,
                   chunks_seen, full_response, full_reasoning_content, content_buffer,
                   reasoning_content_buffer, consumed, agent_vars, api_vars>>

\* A completion request is either a _chat_stream or a _chat_no_stream call.
CompletionInit == ChatInit \/ NoStreamInit

CompletionNext ==
    \/ chat_attempt
    \/ chat_delta_chunk
    \/ chat_aggregate_chunk
    \/ chat_stream_end
    \/ chat_stream_error
    \/ chat_no_stream

CompletionSpec == CompletionInit /\ [][CompletionNext]_vars

----------------------------------------------------------------------------
(* Source extraction (backend-qwen/api/research.py) *)

\* Largest number of items in a JSON list given to the extraction.
MaxItems == 2

\* json.loads either returns a value or raises JSONDecodeError.  A tool
\* output is the JSON document of a value, or a text json.loads rejects,
\* given as its tokens.  A JSON value is a list of items or something else
\* (an object, a string, a number).
JsonText(value)   == [json |-> TRUE, value |-> value, tokens |-> <<>>]
PlainText(tokens) == [json |-> FALSE, value |-> [list |-> FALSE, items |-> <<>>],
                      tokens |-> tokens]
JsonList(items)   == [list |-> TRUE, items |-> items]
JsonOther         == [list |-> FALSE, items |-> <<>>]

\* An item of a JSON list: a dict, with what .get returns for the four keys
\* the extraction reads (None for an absent key or a null), or not a dict.
JsonDict(url, link, title, name) ==
    [dict |-> TRUE, url |-> url, link |-> link, title |-> title, name |-> name]
JsonScalar == [dict |-> FALSE, url |-> None, link |-> None, title |-> None, name |-> None]

\* Python truth of what .get returned: None and "" are false.
Truthy(v) == v.some /\ v.val # <<>>

\* a or b
PyOr(a, b) == IF Truthy(a) THEN a ELSE b

\* A source is made for every dict that has a url or a link.
item_sources_untitled(item) ==
    IF ~item.dict THEN <<>>
    ELSE LET url   == PyOr(item.url, item.link)
             title == PyOr(item.title, item.name)
         IN  IF Truthy(url)
             THEN <<[url |-> url.val, title |-> title.val, type |-> "search_result"]>>
             ELSE <<>>

\* The body of "for item in parsed": the sources one item adds.
item_sources(item) ==
    IF ~item.dict THEN <<>>
    ELSE LET url   == PyOr(item.url, item.link)
             title == PyOr(item.title, item.name)
         IN  IF Truthy(url) /\ Truthy(title)
             THEN <<[url |-> url.val, title |-> title.val, type |-> "search_result"]>>
             ELSE <<>>

RECURSIVE list_sources(_)
list_sources(items) ==
    IF items = <<>> THEN <<>>
    ELSE item_sources(Head(items)) \o list_sources(Tail(items))

\* Tokens of a plain text: brackets, parentheses, white space, words, and
\* URLs up to the end of their host or path.
LBracket == "["
RBracket == "]"
LParen   == "("
RParen   == ")"
UrlHttp  == "http://y.com"
UrlWww   == "https://www.z.org/p"

UrlTokens == {UrlHttp, UrlWww}

\* Of the characters the URL pattern excludes, [^\s<>"{}|\\^`\[\]], the
\* ones that occur as tokens.
StopTokens == {WS, Newline, LBracket, RBracket}

\* \s
IsSpace(tok) == tok \in {WS, Newline}

\* How many tokens "https?://[^\s<>...]+" matches from the head of text,
\* which starts with a URL token: the match is greedy and runs up to the
\* first excluded character.
RECURSIVE url_run(_)
url_run(text) ==
    IF text = <<>> \/ Head(text) \in StopTokens THEN 0
    ELSE 1 + url_run(Tail(text))

\* re.findall(url_pattern, tool_output): the matches from left to right,
\* without overlap.
RECURSIVE find_urls(_)
find_urls(text) ==
    IF text = <<>> THEN <<>>
    ELSE IF Head(text) \in UrlTokens
         THEN LET n == url_run(text)
              IN  <<SubSeq(text, 1, n)>> \o find_urls(SubSeq(text, n + 1, Len(text)))
         ELSE find_urls(Tail(text))

\* The index of the first token at or after i that is not white space
\* (Len(text) + 1 when there is none).
RECURSIVE skip_space(_, _)
skip_space(text, i) ==
    IF i <= Len(text) /\ IsSpace(text[i]) THEN skip_space(text, i + 1) ELSE i

\* Whether "\[([^\]]+)\]\s*\(\s*<url>\s*\)" matches at token i, and the
\* index of the bracket that closes group 1.
ClosingBracket(text, i) ==
    IF \E j \in (i + 1)..Len(text) : text[j] = RBracket
    THEN CHOOSE j \in (i + 1)..Len(text) :
            /\ text[j] = RBracket
            /\ \A k \in (i + 1)..(j - 1) : text[k] # RBracket
    ELSE 0

title_matches_at(text, i, url) ==
    /\ text[i] = LBracket
    /\ LET j == ClosingBracket(text, i)
       IN  /\ j > i + 1
           /\ LET k == skip_space(text, j + 1)
              IN  /\ k <= Len(text)
                  /\ text[k] = LParen
                  /\ LET m == skip_space(text, k + 1)
                         e == m + Len(url) - 1
                     IN  /\ e <= Len(text)
                         /\ SubSeq(text, m, e) = url
                         /\ LET n == skip_space(text, e + 1)
                            IN  n <= Len(text) /\ text[n] = RParen

\* re.search(title pattern, tool_output): group 1 of the leftmost match.
title_match(text, url) ==
    IF \E i \in 1..Len(text) : title_matches_at(text, i, url)
    THEN LET i == CHOOSE i \in 1..Len(text) :
                    /\ title_matches_at(text, i, url)
                    /\ \A h \in 1..(i - 1) : ~title_matches_at(text, h, url)
         IN  Some(SubSeq(text, i + 1, ClosingBracket(text, i) - 1))
    ELSE None

\* Group 1 of "https?://(?:www\.)?([^/]+)" on each URL token, and whether
\* the token goes on with a path.
UrlDomain(tok) == IF tok = UrlWww THEN "z.org" ELSE "y.com"
UrlHasPath(tok) == tok = UrlWww

\* re.search(domain pattern, url).group(1): the host without a leading
\* "www.", and whatever follows it in the match up to the first "/".
url_domain(url) ==
    IF UrlHasPath(Head(url)) THEN <<UrlDomain(Head(url))>>
    ELSE <<UrlDomain(Head(url))>> \o Tail(url)

\* The body of "for url in urls".
url_source(text, url) ==
    LET found == title_match(text, url)
    IN  [url   |-> url,
         title |-> IF found.some THEN found.val ELSE url_domain(url),
         type  |-> "web_link"]

extract_sources_from_tool_output(output) ==
    IF output = EmptyText THEN <<>>
    ELSE IF output.json
         THEN IF output.value.list THEN list_sources(output.value.items) ELSE <<>>
         ELSE LET urls == find_urls(output.tokens)
              IN  [u \in 1..Len(urls) |-> url_source(output.tokens, urls[u])]

\* The values .get returns in the inputs.
UrlValues   == {None, Some(<<>>), Some(<<"u">>)}
LinkValues  == {None, Some(<<"l">>)}
TitleValues == {None, Some(<<>>), Some(<<"t">>)}
NameValues  == {None, Some(<<"n">>)}

JsonItems ==
    {JsonScalar}
        \cup {JsonDict(u, l, t, n) : u \in UrlValues, l \in LinkValues,
                                     t \in TitleValues, n \in NameValues}

JsonLists == UNION {[1..n -> JsonItems] : n \in 0..MaxItems}

MdLink(label, url)       == <<LBracket, label, RBracket, LParen, url, RParen>>
MdLinkSpaced(label, url) == <<LBracket, label, RBracket, WS, LParen, WS, url, WS, RParen>>

TextBodies ==
    {MdLink("Example", u) : u \in UrlTokens}
        \cup {MdLinkSpaced("Example", u) : u \in UrlTokens}
        \cup {<<u>> : u \in UrlTokens}
        \cup {<<LParen, u, RParen>> : u \in UrlTokens}
        \cup {<<"plain">>, <<LBracket, "Example", RBracket>>}

PlainTexts ==
    {a \o b \o c : a \in {<<>>, <<"see", WS>>}, b \in TextBodies,
                   c \in {<<>>, <<WS, "now">>, <<".">>, <<RParen>>}}
        \cup {b \o <<WS>> \o c : b \in TextBodies, c \in TextBodies}

\* Documents json.loads accepts that are not lists, with their raw text: an
\* object and a string that hold a URL, and a number.
JsonObjectText ==
    [json |-> TRUE, value |-> JsonOther, tokens |-> <<"{\"url\": \"", UrlHttp, "\"}">>]
JsonStringText ==
    [json |-> TRUE, value |-> JsonOther, tokens |-> <<"\"", UrlWww, "\"">>]
JsonNumberText ==
    [json |-> TRUE, value |-> JsonOther, tokens |-> <<"42">>]

ToolOutputs ==
    {EmptyText, JsonText(JsonOther), JsonObjectText, JsonStringText, JsonNumberText}
        \cup {JsonText(JsonList(items)) : items \in JsonLists}
        \cup {PlainText(t) : t \in PlainTexts}

AgentIdle ==
    /\ max_llm_calls = 1
    /\ reasoning = FALSE
    /\ state = initial_state
    /\ pc = "idle"
    /\ result = NoResult
    /\ llm_calls = 0
    /\ llm_failed = FALSE
    /\ llm_input = <<>>
    /\ dispatch_turns = 0
    /\ llm_provider = "openai"
    /\ cancelled = FALSE

ExtractInit ==
    /\ extract_pc = "call"
    /\ tool_output \in ToolOutputs
    /\ extracted = <<>>
    /\ AgentIdle
    /\ ChatIdle
    /\ StreamIdle
    /\ LoopIdle
    /\ CallIdle
    /\ PairIdle

extract_call ==
    /\ extract_pc = "call"
    /\ extracted' = extract_sources_from_tool_output(tool_output)
    /\ extract_pc' = "returned"
    /\ UNCHANGED <<tool_output, agent_vars, chat_vars, stream_vars, loop_vars, call_vars,
                 pair_vars>>

ExtractNext == extract_call

ExtractSpec == ExtractInit /\ [][ExtractNext]_vars

----------------------------------------------------------------------------
(* Streaming a research session (backend-qwen/api/research.py) *)

\* Largest number of messages research_agent._run yields in a session.
MaxMessages == 3

\* A qwen-agent message.  Its content is a str, a list of one text item, or
\* a list of one item whose text is None (an image item).
QwenOut(role, name, kind, text) ==
    [role |-> role, name |-> name, content |-> [kind |-> kind, text |-> text]]

NoName == "None"

\* The messages research_agent._run yields in the runs considered.
SearchOutput ==
    JsonText(JsonList(<<JsonDict(Some(<<"u">>), None, Some(<<"t">>), None)>>))
VisitOutput  == PlainText(MdLinkSpaced("Example", UrlHttp))
PythonOutput == PlainText(<<"see", WS, UrlWww>>)

QwenOutputs ==
    { QwenOut("assistant", NoName, "str", PlainText(<<"thinking">>)),
      QwenOut("assistant", NoName, "image_list", EmptyText),
      QwenOut("function", "search", "str", SearchOutput),
      QwenOut("function", "visit", "list", VisitOutput),
      QwenOut("function", "PythonInterpreter", "str", PythonOutput) }

\* role_map.get(qwen_message.role, MessageType.AGENT)
message_type(role) ==
    CASE role = "system"    -> "system"
      [] role = "user"      -> "user"
      [] role = "assistant" -> "agent"
      [] role = "function"  -> "tool"
      [] OTHER              -> "agent"

\* "content += item.text" raises TypeError when item.text is None.
content_raises(content) == content.kind = "image_list"

\* The content string built from a str or from the texts of a list.
content_text(content) ==
    IF content.kind \in {"str", "list"} THEN content.text ELSE EmptyText

\* convert_qwen_message_to_api, for a content that does not raise; id is the
\* value of str(uuid.uuid4()).
convert_qwen_message_to_api(qwen_message, id) ==
    LET content == content_text(qwen_message.content)
        is_tool == qwen_message.role = "function" /\ qwen_message.name # NoName
    IN  [id       |-> id,
         type     |-> message_type(qwen_message.role),
         content  |-> content,
         agent    |-> "qwen-agent",
         toolName |-> IF is_tool THEN qwen_message.name ELSE NoName,
         result   |-> IF is_tool THEN Some(content) ELSE None,
         role     |-> qwen_message.role,
         tool_calls |-> <<>>,
         sources  |-> None]

\* "if api_msg.type == MessageType.TOOL and api_msg.toolName in ['search',
\* 'visit']"
extracts_sources(api_msg) ==
    api_msg.type = "tool" /\ api_msg.toolName \in {"search", "visit"}

\* extract_sources_from_tool_output(api_msg.result or "")
message_sources(api_msg) ==
    extract_sources_from_tool_output(
        IF api_msg.result.some THEN api_msg.result.val ELSE EmptyText)

MessageEvent(api_msg) == [type |-> "message", data |-> api_msg]

\* The names the complete event lists.
ConfiguredTools == <<"search", "visit", "google_scholar", "PythonInterpreter">>

CompleteEvent(all_sources) ==
    [type |-> "complete",
     data |-> [session_id |-> "session", sources |-> all_sources,
               tools_used |-> ConfiguredTools]]

ErrorEvent(e) ==
    [type |-> "error", data |-> [error |-> e, session_id |-> "session"]]

\* The message of response_batch the inner loop takes next is the last one.
next_message_last(response_batch) == response_batch[Len(response_batch)]

\* "for qwen_msg in response_batch": the message the inner loop takes next.
next_message(response_batch) == Head(response_batch)

\* The handler reports the error and then the completion.
on_exception_and_complete(evs, e) ==
    Append(Append(evs, ErrorEvent(e)), CompleteEvent(sources))

\* "except Exception as e": the handler yields one error event.
on_exception(evs, e) == Append(evs, ErrorEvent(e))

\* Batches of at most n messages.
Batches(n) == UNION {[1..k -> QwenOutputs] : k \in 0..n}

StreamInit ==
    /\ stream_pc = "start"
    /\ qwen_messages = <<>>
    /\ agent_log = <<>>
    /\ batch = <<>>
    /\ sources = <<>>
    /\ events = <<>>
    /\ uuids = 0
    /\ stream_raised = "none"
    /\ ExtractIdle
    /\ LoopIdle
    /\ CallIdle
    /\ PairIdle
    /\ AgentIdle
    /\ ChatIdle

Unchanged_stream_others ==
    UNCHANGED <<extract_vars, loop_vars, call_vars, pair_vars, agent_vars, chat_vars>>

\* From the call to the first request for a batch: qwen_messages is the
\* query, preceded by the custom instructions when there are any.
stream_start ==
    /\ stream_pc = "start"
    /\ \E custom_instructions \in {<<>>, <<"instructions">>} :
        qwen_messages' =
            (IF custom_instructions # <<>>
             THEN <<QwenOut("system", NoName, "str", PlainText(custom_instructions))>>
             ELSE <<>>)
                \o <<QwenOut("user", NoName, "str", PlainText(<<"query">>))>>
    /\ stream_pc' = "next_batch"
    /\ UNCHANGED <<agent_log, batch, sources, events, uuids, stream_raised>>
    /\ Unchanged_stream_others

\* "for response_batch in research_agent._run(messages=qwen_messages)" asks
\* for the next batch: the agent yields one, is exhausted (the complete
\* event is yielded and the run ends), or raises (the handler runs).
stream_next_batch ==
    /\ stream_pc = "next_batch"
    /\ \/ \E response_batch \in Batches(MaxMessages - Len(agent_log)) :
            /\ agent_log' = agent_log \o response_batch
            /\ batch' = response_batch
            /\ stream_pc' = IF response_batch = <<>> THEN "next_batch" ELSE "message"
            /\ UNCHANGED <<events, stream_raised>>
       \/ /\ events' = Append(events, CompleteEvent(sources))
          /\ stream_pc' = "done"
          /\ UNCHANGED <<agent_log, batch, stream_raised>>
       \/ /\ events' = on_exception(events, "agent")
          /\ stream_raised' = "agent"
          /\ stream_pc' = "done"
          /\ UNCHANGED <<agent_log, batch>>
    /\ UNCHANGED <<qwen_messages, sources, uuids>>
    /\ Unchanged_stream_others

\* The body of the inner loop up to its yield: the message is converted, its
\* sources are extracted and recorded, and the message event is yielded.
stream_message ==
    /\ stream_pc = "message"
    /\ LET qwen_msg == next_message(batch)
       IN  IF content_raises(qwen_msg.content)
           THEN /\ events' = on_exception(events, "TypeError")
                /\ stream_raised' = "conversion"
                /\ stream_pc' = "done"
                /\ UNCHANGED <<sources, uuids>>
           ELSE LET converted == convert_qwen_message_to_api(qwen_msg, uuids + 1)
                    extracted_sources == message_sources(converted)
                    api_msg ==
                        IF extracts_sources(converted)
                        THEN [converted EXCEPT !.sources = Some(extracted_sources)]
                        ELSE converted
                IN  /\ uuids' = uuids + 1
                    /\ sources' = IF extracts_sources(converted)
                                  THEN sources \o extracted_sources
                                  ELSE sources
                    /\ events' = Append(events, MessageEvent(api_msg))
                    /\ stream_pc' = "sleep"
                    /\ UNCHANGED stream_raised
    /\ UNCHANGED <<qwen_messages, agent_log, batch>>
    /\ Unchanged_stream_others

\* "await asyncio.sleep(0.1)" returns and the inner loop goes on.
stream_sleep ==
    /\ stream_pc = "sleep"
    /\ batch' = Tail(batch)
    /\ stream_pc' = IF Tail(batch) = <<>> THEN "next_batch" ELSE "message"
    /\ UNCHANGED <<qwen_messages, agent_log, sources, events, uuids, stream_raised>>
    /\ Unchanged_stream_others

StreamNext ==
    \/ stream_start
    \/ stream_next_batch
    \/ stream_message
    \/ stream_sleep

StreamSpec == StreamInit /\ [][StreamNext]_vars

----------------------------------------------------------------------------
(* Streaming sessions on the event loop *)

\* Largest number of message events a session yields.
MaxTaskEvents == 2

\* stream_research_results is an async generator run as a task of the
\* server's event loop.  A task gives the loop's thread back only where it
\* yields an event or awaits asyncio.sleep; "for response_batch in
\* research_agent._run(...)" is a plain for statement over a generator, so
\* all that the agent does for a batch, the model adapter's retry loop with
\* its time.sleep included, runs on the loop's thread without a break.
LoopInit ==
    /\ loop_thread = 0
    /\ task_pc = [s \in Sessions |-> "start"]
    /\ task_attempt = [s \in Sessions |-> 0]
    /\ task_events = [s \in Sessions |-> 0]
    /\ ExtractIdle
    /\ StreamIdle
    /\ CallIdle
    /\ PairIdle
    /\ AgentIdle
    /\ ChatIdle

Unchanged_loop_others ==
    UNCHANGED <<extract_vars, stream_vars, call_vars, pair_vars, agent_vars, chat_vars>>

\* The loop, with no task running, starts or resumes the task of session s,
\* which goes on to ask the agent for its next batch.
loop_run(s) ==
    /\ loop_thread = 0
    /\ task_pc[s] \in {"start", "suspended"}
    /\ loop_thread' = s
    /\ task_pc' = [task_pc EXCEPT ![s] = "calling"]
    /\ task_attempt' = [task_attempt EXCEPT ![s] = 0]
    /\ UNCHANGED task_events
    /\ Unchanged_loop_others

\* One iteration of the retry loop inside the running task.  A returned
\* response becomes a batch, whose message event the task yields before it
\* awaits asyncio.sleep, or the agent's last step, after which the complete
\* event is yielded; an error the adapter raises ends the task with the
\* error event; a rate-limit failure before the last attempt enters
\* time.sleep(delay), with the task still on the loop's thread.
task_call_model(s) ==
    /\ loop_thread = s
    /\ task_pc[s] = "calling"
    /\ \E outcome \in ProviderOutcomes :
        IF outcome = "ok"
        THEN \/ /\ task_events[s] < MaxTaskEvents
                /\ task_events' = [task_events EXCEPT ![s] = @ + 1]
                /\ task_pc' = [task_pc EXCEPT ![s] = "suspended"]
                /\ loop_thread' = 0
                /\ UNCHANGED task_attempt
             \/ /\ task_pc' = [task_pc EXCEPT ![s] = "done"]
                /\ loop_thread' = 0
                /\ UNCHANGED <<task_attempt, task_events>>
        ELSE IF raises_service_error(outcome, task_attempt[s])
        THEN /\ task_pc' = [task_pc EXCEPT ![s] = "done"]
             /\ loop_thread' = 0
             /\ UNCHANGED <<task_attempt, task_events>>
        ELSE /\ task_pc' = [task_pc EXCEPT ![s] = "backoff"]
             /\ UNCHANGED <<loop_thread, task_attempt, task_events>>
    /\ Unchanged_loop_others

\* time.sleep(delay) returns and the retry loop goes to its next attempt.
task_backoff_end(s) ==
    /\ loop_thread = s
    /\ task_pc[s] = "backoff"
    /\ task_attempt' = [task_attempt EXCEPT ![s] = @ + 1]
    /\ task_pc' = [task_pc EXCEPT ![s] = "calling"]
    /\ UNCHANGED <<loop_thread, task_events>>
    /\ Unchanged_loop_others

LoopNext ==
    \E s \in Sessions :
        \/ loop_run(s)
        \/ task_call_model(s)
        \/ task_backoff_end(s)

LoopSpec == LoopInit /\ [][LoopNext]_vars

----------------------------------------------------------------------------
(* Helper functions of the API layer *)

\* A tool message goes back as a user message.
role_of_type_untooled(type) ==
    CASE type = "system" -> "system"
      [] type = "agent"  -> "assistant"
      [] OTHER           -> "user"

\* convert_api_message_to_qwen: role_map.get(message.type, USER)
role_of_type(type) ==
    CASE type = "system" -> "system"
      [] type = "user"   -> "user"
      [] type = "agent"  -> "assistant"
      [] type = "tool"   -> "function"
      [] OTHER           -> "user"

\* convert_api_message_to_qwen
convert_api_message_to_qwen(message) ==
    QwenOut(role_of_type(message.type),
            IF message.type = "tool" THEN message.toolName ELSE NoName,
            "str",
            IF message.tool_calls # <<>>
            THEN PlainText(<<"Tool call: ">> \o message.tool_calls)
            ELSE message.content)

\* The internal messages the conversions are applied to.
RoundTripInputs ==
    {QwenOut(role, name, kind, text) :
        role \in {"system", "user", "assistant", "function"},
        name \in {NoName, "search", "visit"},
        kind \in {"str", "list", "image_list"},
        text \in {EmptyText, PlainText(<<"a">>), SearchOutput, VisitOutput}}

\* What an argument bag holds under a key: nothing, "", a text, or a number
\* where a text is expected.
ArgValues == {"missing", "empty", "str", "int"}

\* `not v`, for a parameter whose default is None.
Falsy(v) == v \in {"missing", "empty"}

\* What running well-typed arguments comes to: the code runs, raises or runs
\* out of time; the directory searched exists or does not.
RunOutcomes == {"ok", "error", "timeout"}

ExecuteInputs ==
    [tool : {"python_interpreter", "local_file_search"},
     args : [code : ArgValues, pattern : ArgValues, directory : ArgValues],
     run  : RunOutcomes]

ToolResult(success, error) == [raised |-> FALSE, success |-> success, error |-> error]
Raised(error)              == [raised |-> TRUE, success |-> FALSE, error |-> error]

\* PythonInterpreterTool.execute(code=None, **kwargs).  No key is required;
\* the body is one try block whose handlers return a failed ToolResult.
python_interpreter_execute(args, run) ==
    IF Falsy(args.code)
    THEN ToolResult(FALSE, "No Python code provided")
    ELSE IF args.code = "int"
    THEN ToolResult(FALSE, "Failed to execute Python code: object of type 'int' has no len()")
    ELSE CASE run = "ok"      -> ToolResult(TRUE, "")
           [] run = "timeout" -> ToolResult(FALSE, "Code execution timed out")
           [] OTHER           -> ToolResult(FALSE, "Code execution failed")

\* LocalFileSearchTool.execute(pattern, directory=None, **kwargs).  pattern
\* has no default: a call without it fails when the arguments are bound,
\* before the body and its try block are entered.  The directory is the
\* working directory unless a truthy one is given, which may not exist.
local_file_search_execute(args, run) ==
    IF args.pattern = "missing"
    THEN Raised("TypeError: execute() missing 1 required positional argument: 'pattern'")
    ELSE IF Falsy(args.directory) \/ run = "ok"
    THEN IF args.pattern = "int"
         THEN ToolResult(FALSE, "Failed to search files: join() argument must be str")
         ELSE ToolResult(TRUE, "")
    ELSE ToolResult(FALSE, "Directory does not exist")

\* tool.execute(**tool_args)
tool_execute(input) ==
    IF input.tool = "python_interpreter"
    THEN python_interpreter_execute(input.args, input.run)
    ELSE local_file_search_execute(input.args, input.run)

\* Largest number of messages an agent run hands to a response.
MaxListed == 2

SeqsUpTo(S, n) == UNION {[1..k -> S] : k \in 1..n}

\* The messages research_agent._run yields for a response, batch after batch:
\* two of them carry the same text.
ListedQwen ==
    { QwenOut("assistant", NoName, "str", PlainText(<<"a">>)),
      QwenOut("function", "search", "str", PlainText(<<"a">>)),
      QwenOut("assistant", NoName, "list", PlainText(<<"b">>)) }

\* result["messages"] of the LangGraph agent.
ListedLangChain ==
    { HumanMessage(<<"a">>), AIMessage(<<"a">>, <<>>, NoId), AIMessage(<<"b">>, <<>>, NoId) }

ResponseInputs ==
    [endpoint : {"research", "generate_document"}, messages : SeqsUpTo(ListedQwen, MaxListed)]
        \cup [endpoint : {"langchain"}, messages : SeqsUpTo(ListedLangChain, MaxListed)]

\* hash(content): equal for equal contents.  Distinct contents are given
\* distinct values here.
hash(content) == content

\* documents.py's convert_qwen_message_to_api: the id is made of the session
\* id and the hash of the content.
documents_convert_qwen_message_to_api(qwen_message, session_id) ==
    LET content == content_text(qwen_message.content)
    IN  [id      |-> <<"msg_", session_id, hash(content)>>,
         type    |-> message_type(qwen_message.role),
         content |-> content,
         agent   |-> "qwen-agent"]

\* models.py's convert_langchain_messages_to_messages: the id is made of the
\* session id and the index of the message.
convert_langchain_messages_to_messages(messages, session_id) ==
    [i \in 1..Len(messages) |->
        [id         |-> <<session_id, "_msg_", i - 1>>,
         type       |-> CASE messages[i].type = "system" -> "system"
                          [] messages[i].type = "human"  -> "user"
                          [] OTHER                       -> "agent",
         content    |-> messages[i].content,
         role       |-> messages[i].type,
         tool_calls |-> messages[i].tool_calls]]

CallInit ==
    /\ call_pc = "call"
    /\ \/ /\ call_fn = "round_trip"
          /\ call_args \in RoundTripInputs
       \/ /\ call_fn = "execute"
          /\ call_args \in ExecuteInputs
       \/ /\ call_fn = "response"
          /\ call_args \in ResponseInputs
    /\ call_result = <<>>
    /\ ExtractIdle
    /\ StreamIdle
    /\ LoopIdle
    /\ PairIdle
    /\ AgentIdle
    /\ ChatIdle

Unchanged_call_others ==
    UNCHANGED <<extract_vars, stream_vars, loop_vars, pair_vars, agent_vars, chat_vars>>

\* convert_qwen_message_to_api(call_args, session_id)
call_convert_qwen_message_to_api ==
    /\ call_pc = "call"
    /\ call_fn = "round_trip"
    /\ IF content_raises(call_args.content)
       THEN call_pc' = "raised" /\ UNCHANGED call_result
       ELSE /\ call_result' = convert_qwen_message_to_api(call_args, 1)
            /\ call_pc' = "converted"
    /\ UNCHANGED <<call_fn, call_args>>
    /\ Unchanged_call_others

\* convert_api_message_to_qwen applied to the message just made.
call_convert_api_message_to_qwen ==
    /\ call_pc = "converted"
    /\ call_fn = "round_trip"
    /\ call_result' = convert_api_message_to_qwen(call_result)
    /\ call_pc' = "returned"
    /\ UNCHANGED <<call_fn, call_args>>
    /\ Unchanged_call_others

\* result = await tool.execute(**tool_args)
call_execute ==
    /\ call_pc = "call"
    /\ call_fn = "execute"
    /\ call_result' = tool_execute(call_args)
    /\ call_pc' = IF call_result'.raised THEN "raised" ELSE "returned"
    /\ UNCHANGED <<call_fn, call_args>>
    /\ Unchanged_call_others

\* backend-qwen/api/research.py perform_research: all_messages, each message
\* converted with a fresh uuid4.
call_perform_research ==
    /\ call_pc = "call"
    /\ call_fn = "response"
    /\ call_args.endpoint = "research"
    /\ call_result' = [i \in 1..Len(call_args.messages) |->
                          convert_qwen_message_to_api(call_args.messages[i], <<"uuid", i>>)]
    /\ call_pc' = "returned"
    /\ UNCHANGED <<call_fn, call_args>>
    /\ Unchanged_call_others

\* backend-qwen/api/documents.py generate_document: all_messages.
call_generate_document ==
    /\ call_pc = "call"
    /\ call_fn = "response"
    /\ call_args.endpoint = "generate_document"
    /\ call_result' = [i \in 1..Len(call_args.messages) |->
                          documents_convert_qwen_message_to_api(call_args.messages[i],
                                                                "session")]
    /\ call_pc' = "returned"
    /\ UNCHANGED <<call_fn, call_args>>
    /\ Unchanged_call_others

\* The endpoints of the LangGraph backend: messages of the response.
call_convert_langchain_messages ==
    /\ call_pc = "call"
    /\ call_fn = "response"
    /\ call_args.endpoint = "langchain"
    /\ call_result' = convert_langchain_messages_to_messages(call_args.messages, "session")
    /\ call_pc' = "returned"
    /\ UNCHANGED <<call_fn, call_args>>
    /\ Unchanged_call_others

CallNext ==
    \/ call_convert_qwen_message_to_api
    \/ call_convert_api_message_to_qwen
    \/ call_execute
    \/ call_perform_research
    \/ call_generate_document
    \/ call_convert_langchain_messages

CallSpec == CallInit /\ [][CallNext]_vars

----------------------------------------------------------------------------
(* Two sessions on the agent the server shares (backend/main.py) *)

QueryOf(t)  == IF t = 1 THEN <<"query 1">> ELSE <<"query 2">>
OutputOf(t) == IF t = 1 THEN "out 1" ELSE "out 2"
AnswerOf(t) == IF t = 1 THEN "answer 1" ELSE "answer 2"

\* What the model and the code it writes do in a session: the model either
\* asks for one python_interpreter call and answers after it, or answers at
\* once; the code either prints one line or prints nothing.
Scripts == [uses_tool : BOOLEAN, prints : BOOLEAN]

\* research(query): the initial_state of session t.
session_state(t) ==
    [initial_state EXCEPT !.messages = <<HumanMessage(QueryOf(t))>>,
                          !.current_task = QueryOf(t)]

script_response(t, script, s) ==
    IF script.uses_tool /\ s.iteration_count = 0
    THEN Response(<<>>, <<ToolCall("python_interpreter", "c1")>>)
    ELSE Response(<<OpenTag, AnswerOf(t), CloseTag>>, <<>>)

\* PythonInterpreterTool.execute: the content of its ToolResult, from what the
\* capture buffer of standard output holds.  Nothing is written to standard
\* error and the code assigns no variable.
python_output(stdout_output) ==
    IF stdout_output # <<>> THEN <<"STDOUT:">> \o stdout_output
    ELSE <<"Code executed successfully (no output)">>

\* tool_executor_execute for the one call of the script, given the tool's
\* result content.
dispatch_python(s, content) ==
    [s EXCEPT !.messages = Append(@, AIMessage(content, <<>>,
                                  last_tool_calls(s.messages)[1].id)),
              !.tools_used = Append(@, "python_interpreter")]

PairInit ==
    /\ max_llm_calls = MaxIter
    /\ reasoning \in BOOLEAN
    /\ llm_provider \in LLMProviders
    /\ tasks \in [Sessions -> [pc : {"researcher_initialize"},
                               state : {session_state(t) : t \in Sessions},
                               script : Scripts,
                               old_stdout : {0},
                               capture : {<<>>}]]
    /\ \A t \in Sessions : tasks[t].state = session_state(t)
    /\ sys_stdout = 0
    /\ console = <<>>
    /\ cancelled = FALSE
    /\ state = initial_state
    /\ pc = "idle"
    /\ result = NoResult
    /\ llm_calls = 0
    /\ llm_failed = FALSE
    /\ llm_input = <<>>
    /\ dispatch_turns = 0
    /\ ChatIdle
    /\ ExtractIdle
    /\ StreamIdle
    /\ LoopIdle
    /\ CallIdle

Unchanged_pair_others ==
    UNCHANGED <<agent_vars, chat_vars, extract_vars, stream_vars, loop_vars, call_vars>>

pair_initialize(t) ==
    /\ tasks[t].pc = "researcher_initialize"
    /\ tasks' = [tasks EXCEPT ![t].state = researcher_initialize(@),
                              ![t].pc = "researcher_reason"]
    /\ UNCHANGED <<sys_stdout, console>>
    /\ Unchanged_pair_others

\* researcher_reason has no await: it runs to its end on the loop's thread.
pair_reason(t) ==
    /\ tasks[t].pc = "researcher_reason"
    /\ LET after == researcher_reason(tasks[t].state,
                        script_response(t, tasks[t].script, tasks[t].state))
       IN  tasks' = [tasks EXCEPT
                        ![t].state = after,
                        ![t].pc = ConditionalEdge(workflow_controller_decide_next(after))]
    /\ UNCHANGED <<sys_stdout, console>>
    /\ Unchanged_pair_others

\* tool_executor_execute up to the await inside execute: redirect_stdout
\* saves sys.stdout and replaces it by the call's capture buffer, the code is
\* handed to the executor and the task is suspended.
pair_execute_enter(t) ==
    /\ tasks[t].pc = "tool_executor_execute"
    /\ tasks' = [tasks EXCEPT ![t].old_stdout = sys_stdout,
                              ![t].capture = <<>>,
                              ![t].pc = "executing"]
    /\ sys_stdout' = t
    /\ UNCHANGED console
    /\ Unchanged_pair_others

\* The executor's thread runs the code: print writes to what sys.stdout is
\* at that moment.
pair_code_runs(t) ==
    /\ tasks[t].pc = "executing"
    /\ IF ~tasks[t].script.prints
       THEN /\ tasks' = [tasks EXCEPT ![t].pc = "executed"]
            /\ UNCHANGED console
       ELSE IF sys_stdout = 0
       THEN /\ tasks' = [tasks EXCEPT ![t].pc = "executed"]
            /\ console' = Append(console, OutputOf(t))
       ELSE /\ tasks' = [tasks EXCEPT
                            ![sys_stdout].capture = Append(@, OutputOf(t)),
                            ![t].pc = "executed"]
            /\ UNCHANGED console
    /\ UNCHANGED sys_stdout
    /\ Unchanged_pair_others

\* The task resumes: redirect_stdout puts back the stream it saved, execute
\* returns the captured output, and the node appends the tool message.
pair_execute_exit(t) ==
    /\ tasks[t].pc = "executed"
    /\ sys_stdout' = tasks[t].old_stdout
    /\ tasks' = [tasks EXCEPT
                    ![t].state = dispatch_python(@, python_output(tasks[t].capture)),
                    ![t].pc = "researcher_reason"]
    /\ UNCHANGED console
    /\ Unchanged_pair_others

pair_return(t) ==
    /\ tasks[t].pc = "END"
    /\ tasks' = [tasks EXCEPT ![t].pc = "returned"]
    /\ UNCHANGED <<sys_stdout, console>>
    /\ Unchanged_pair_others

PairNext ==
    \E t \in Sessions :
        \/ pair_initialize(t)
        \/ pair_reason(t)
        \/ pair_execute_enter(t)
        \/ pair_code_runs(t)
        \/ pair_execute_exit(t)
        \/ pair_return(t)

PairSpec == PairInit /\ [][PairNext]_vars

\* The state session t ends with when no other session runs.
alone_state(t, script) ==
    LET s0 == researcher_initialize(session_state(t))
        s1 == researcher_reason(s0, script_response(t, script, s0))
        s2 == dispatch_python(s1, python_output(IF script.prints
                                                THEN <<OutputOf(t)>> ELSE <<>>))
        s3 == researcher_reason(s2, script_response(t, script, s2))
    IN  IF script.uses_tool THEN s3 ELSE s1

----------------------------------------------------------------------------
(* Properties of the orchestration loop *)

Done == pc \in {"END", "returned"}

LastMessage == state.messages[Len(state.messages)]

\* C1: in every reachable state of a session iteration_count is at most
\* max_iterations.
C1_IterationBound == state.iteration_count <= state.max_iterations

\* A session that used its whole budget of two or more calls, with a tool
\* turn on the way.
C1_Witness ==
    /\ state.max_iterations > 1
    /\ state.iteration_count = state.max_iterations
    /\ dispatch_turns > 0

\* C2: once is_complete is true the workflow is at END and no node is applied
\* to the state any more, so is_complete goes from false to true at most once
\* and never back.
C2_CompleteIsFinal ==
    [][ /\ state'.is_complete => pc' \in {"END", "returned"}
        /\ state.is_complete => state' = state ]_vars

\* A completed session whose result has been returned after a model call.
C2_Witness == pc = "returned" /\ state.is_complete /\ llm_calls > 0

\* C3: final_answer is set only if is_complete is true.
C3_AnswerOnlyWhenComplete == state.final_answer # None => state.is_complete

\* A completed session with a non-empty final answer.
C3_Witness ==
    /\ state.is_complete
    /\ state.final_answer # None
    /\ state.final_answer.val # <<>>

\* An opening delimiter somewhere before a closing delimiter.
WellFormedPair(content) ==
    \E i, j \in 1..Len(content) :
        i < j /\ content[i] = OpenTag /\ content[j] = CloseTag

\* The text between the first opening delimiter and the first closing
\* delimiter after it.
Between(content) ==
    LET i == Find(content, OpenTag)
        j == CHOOSE k \in (i + 1)..Len(content) :
                /\ content[k] = CloseTag
                /\ \A l \in (i + 1)..(k - 1) : content[l] # CloseTag
    IN  SubSeq(content, i + 1, j - 1)

\* C4: a response with a well-formed <answer>...</answer> pair completes the
\* session in that step with final_answer equal to the trimmed text between
\* the delimiters, and none of its tool calls is dispatched.
C4_AnswerExtracted ==
    (LastMessage.type = "ai" /\ WellFormedPair(LastMessage.content)) =>
        /\ state.is_complete
        /\ Done
        /\ state.final_answer = Some(strip(Between(LastMessage.content)))

\* C5: a tool call with an unregistered name does not abort the turn: a
\* result message naming the requested tool is appended at the call's place,
\* the remaining calls get their messages, and a REASONING step follows.
C5_UnknownToolReported ==
    [][ pc = "tool_executor_execute" =>
          LET calls == last_tool_calls(state.messages)
              base  == Len(state.messages)
          IN  /\ pc' = "researcher_reason"
              /\ Len(state'.messages) = base + Len(calls)
              /\ \A i \in 1..Len(calls) :
                    calls[i].name \notin ToolNames =>
                        /\ Contains(state'.messages[base + i].content, calls[i].name)
                        /\ state'.messages[base + i].tool_call_id = calls[i].id ]_vars

\* A turn whose first call named an unknown tool and whose second call ran.
C5_Witness ==
    /\ pc = "researcher_reason"
    /\ \E i \in 1..(Len(state.messages) - 1) :
          /\ state.messages[i].content = <<"Tool '", "bogus", "' not found">>
          /\ state.messages[i + 1].tool_call_id = "c2"

\* C6: in a turn with several tool calls each call gets its own result
\* message, whatever the other calls of the turn did: a raised exception or
\* an unsuccessful result does not stop the calls after it.
C6_SiblingIsolation ==
    [][ pc = "tool_executor_execute" =>
          LET calls == last_tool_calls(state.messages)
              base  == Len(state.messages)
          IN  /\ Len(state'.messages) = base + Len(calls)
              /\ SubSeq(state'.messages, 1, base) = state.messages
              /\ \A i \in 1..Len(calls) :
                    /\ state'.messages[base + i].type = "ai"
                    /\ state'.messages[base + i].tool_call_id = calls[i].id
                    /\ state'.messages[base + i].tool_calls = <<>> ]_vars

\* A turn in which the first call raised and the second call succeeded.
C6_Witness ==
    \E i \in 1..(Len(state.messages) - 1) :
        /\ state.messages[i].content = <<"Tool execution failed: ", RaisedError>>
        /\ state.messages[i].tool_call_id = "c1"
        /\ state.messages[i + 1].content = ResultContent
        /\ state.messages[i + 1].tool_call_id = "c2"

\* C7: when the model call raises, the state becomes complete with a
\* final_answer describing the failure and research() returns success=false.
C7_ModelFailureReported ==
    (result.returned /\ llm_failed) =>
        /\ result.is_complete
        /\ result.final_answer = Some(<<FailurePrefix, "llm down">>)
        /\ result.success = FALSE

\* Every response so far was plain: no tool call and no answer delimiter.
QuietModel ==
    /\ ~llm_failed
    /\ \A i \in 1..Len(state.messages) :
          state.messages[i].type = "ai" =>
              /\ state.messages[i].tool_calls = <<>>
              /\ ~Contains(state.messages[i].content, OpenTag)
              /\ ~Contains(state.messages[i].content, CloseTag)

\* C8: with max_iterations = 1 and a model that never answers and never calls
\* a tool, the session makes exactly one model call and returns complete,
\* with the budget notice as final_answer, iterations = 1 and success = true.
C8_BudgetScenario ==
    (result.returned /\ max_llm_calls = 1 /\ QuietModel) =>
        /\ llm_calls = 1
        /\ result.is_complete
        /\ result.final_answer = Some(LimitNotice)
        /\ result.final_answer.val # <<>>
        /\ result.iterations = 1
        /\ result.success

\* The budget scenario has run to its end.
C8_Witness ==
    /\ result.returned
    /\ max_llm_calls = 1
    /\ QuietModel
    /\ state.iteration_count = 1

\* C9: every session terminates complete, after at most max_iterations model
\* calls and at most max_iterations tool turns.
C9_Terminates ==
    /\ <>(pc = "returned" /\ result.is_complete)
    /\ [](llm_calls <= max_llm_calls /\ dispatch_turns <= max_llm_calls)

\* A returned session that spent its whole budget on model calls and tool
\* turns.
C9_Witness ==
    /\ pc = "returned"
    /\ max_llm_calls > 1
    /\ llm_calls = max_llm_calls
    /\ dispatch_turns = max_llm_calls

----------------------------------------------------------------------------
(* Properties of the streaming adapter's retry loop *)

\* C10: one streaming request issues at most 5 provider calls; when all 5
\* attempts fail with a rate-limit signal the adapter raises ModelServiceError
\* after the 5th attempt, without sleeping after it and without yielding.
C10_RetryCeiling ==
    /\ provider_calls <= MAX_RETRIES
    /\ sleeps <= provider_calls
    /\ rate_limits = MAX_RETRIES =>
          /\ chat_pc = "raised"
          /\ raised = "ModelServiceError"
          /\ provider_calls = MAX_RETRIES
          /\ sleeps = MAX_RETRIES - 1
          /\ yielded = <<>>

\* All five attempts were rate limited.
C10_Witness == rate_limits = MAX_RETRIES /\ chat_pc = "raised"

\* C11: a provider error that is not a rate-limit signal is never retried.
\* The call that met it is the last provider call of the request, every call
\* before it failed with a rate-limit signal, the request ends with
\* ModelServiceError, and the number of provider calls is the number of
\* rate-limit failures plus one.
C11_ProviderErrorNotRetried ==
    /\ Len(provider_log) = provider_calls
    /\ \A i \in 1..Len(provider_log) :
        provider_log[i].outcome = "openai_error" =>
            /\ i = Len(provider_log)
            /\ \A j \in 1..(i - 1) : provider_log[j].outcome = "rate_limit"
            /\ provider_calls = rate_limits + 1
            /\ chat_pc = "raised"
            /\ raised = "ModelServiceError"

\* A provider error on the third attempt, after two rate-limit failures.
C11_Witness ==
    /\ rate_limits = 2
    /\ provider_log # <<>>
    /\ provider_log[Len(provider_log)].outcome = "openai_error"
    /\ chat_pc = "raised"

\* What the delta-mode loop yields for a sequence of chunks, each handled once.
RECURSIVE DeltaLog(_)
DeltaLog(chunks) ==
    IF chunks = <<>> THEN <<>>
    ELSE (IF Head(chunks).choices THEN delta_messages(Head(chunks)) ELSE <<>>)
            \o DeltaLog(Tail(chunks))

\* The provider call that returned the response stream has been made.
StreamOpened ==
    /\ provider_log # <<>>
    /\ provider_log[Len(provider_log)].outcome = "ok"

\* C12: when the first N-1 provider calls fail with a rate-limit signal and
\* the Nth succeeds (1 <= N <= 5), exactly one response stream is opened and
\* consumed, every attempt sent the same request, nothing had been yielded
\* when any of the calls was made, and each chunk of the stream contributes
\* to the output once: in delta mode the output is the chunks' messages in
\* order, in aggregated mode no yielded snapshot is repeated.
C12_RetryIdempotent ==
    StreamOpened =>
        LET N == Len(provider_log)
        IN  /\ N \in 1..MAX_RETRIES
            /\ \A i \in 1..(N - 1) : provider_log[i].outcome = "rate_limit"
            /\ Cardinality({i \in 1..N : provider_log[i].outcome = "ok"}) = 1
            /\ \A i, j \in 1..N : provider_log[i].request = provider_log[j].request
            /\ \A i \in 1..N : provider_log[i].yielded_before = 0
            /\ Len(consumed) = chunks_seen
            /\ delta_stream => yielded = DeltaLog(consumed)
            /\ ~delta_stream =>
                    \A i, j \in 1..Len(yielded) : i # j => yielded[i] # yielded[j]

\* Success on the fifth call, after four rate-limit failures, with the whole
\* stream consumed and something yielded.
C12_Witness ==
    /\ StreamOpened
    /\ Len(provider_log) = MAX_RETRIES
    /\ chat_pc = "finished"
    /\ Len(yielded) > 1

\* C13: a retry only happens before any chunk of the request has been
\* yielded.  No provider call is made once something has been yielded, and
\* an error raised while the response stream is being consumed ends the
\* request with ModelServiceError, without a further provider call.
C13_RetryOnlyBeforeFirstChunk ==
    /\ \A i \in 1..Len(provider_log) : provider_log[i].yielded_before = 0
    /\ (StreamOpened /\ chat_pc = "raised") => raised = "ModelServiceError"

\* C14: the delay taken after the k-th failed attempt (k = 0..3) is 2 * 2^k
\* plus a jitter between 0 and 1, each delay is greater than the one before
\* it, and one delay is taken per rate-limited attempt except the last.
C14_BackoffSchedule ==
    /\ [](sleeps = IF rate_limits = MAX_RETRIES THEN rate_limits - 1 ELSE rate_limits)
    /\ [][ sleeps' # sleeps =>
            /\ sleeps' = sleeps + 1
            /\ attempt \in 0..3
            /\ attempt = sleeps
            /\ 2 * (2 ^ attempt) <= delay'
            /\ delay' <= 2 * (2 ^ attempt) + 1
            /\ delay' > delay ]_vars

\* The fourth delay has been taken, with the largest jitter.
C14_Witness == sleeps = 4 /\ delay = 17 /\ chat_pc = "retry"

----------------------------------------------------------------------------
(* Properties of the source extraction *)

\* A record has a url or a link, and a title or a name.
Qualifies(item) ==
    /\ item.dict
    /\ Truthy(item.url) \/ Truthy(item.link)
    /\ Truthy(item.title) \/ Truthy(item.name)

\* C19: when the tool output parses as a JSON list of records, the result
\* holds one source per record that has a url (or link) and a title (or
\* name), in list order, each tagged search_result with the record's url
\* (else link) and title (else name); other records yield no source.
C19_StructuredExtraction ==
    (extract_pc = "returned" /\ tool_output.json /\ tool_output.value.list) =>
        LET items == tool_output.value.items
            Q     == {i \in 1..Len(items) : Qualifies(items[i])}
        IN  /\ Len(extracted) = Cardinality(Q)
            /\ \E f \in [1..Len(extracted) -> Q] :
                /\ \A a, b \in 1..Len(extracted) : a < b => f[a] < f[b]
                /\ \A k \in 1..Len(extracted) :
                    /\ extracted[k].type = "search_result"
                    /\ extracted[k].url =
                            IF Truthy(items[f[k]].url) THEN items[f[k]].url.val
                            ELSE items[f[k]].link.val
                    /\ extracted[k].title =
                            IF Truthy(items[f[k]].title) THEN items[f[k]].title.val
                            ELSE items[f[k]].name.val

\* A list of a record without a title or name and a record with a link and
\* a name: one source, for the second record.
C19_Witness ==
    /\ extract_pc = "returned"
    /\ tool_output.json
    /\ tool_output.value.list
    /\ Len(tool_output.value.items) = 2
    /\ ~Qualifies(tool_output.value.items[1])
    /\ tool_output.value.items[1].dict
    /\ Truthy(tool_output.value.items[1].url)
    /\ extracted = <<[url |-> <<"l">>, title |-> <<"n">>, type |-> "search_result"]>>

\* The number of URL tokens in a text.
RECURSIVE UrlCount(_)
UrlCount(text) ==
    IF text = <<>> THEN 0
    ELSE (IF Head(text) \in UrlTokens THEN 1 ELSE 0) + UrlCount(Tail(text))

\* C20: for a plain text that contains the Markdown link [Label](URL) and no
\* other URL, the result is exactly one source, with url URL (without the
\* closing parenthesis) and title Label, tagged web_link.
C20_MarkdownExtraction ==
    (extract_pc = "returned" /\ ~tool_output.json) =>
        \A u \in UrlTokens :
            LET text == tool_output.tokens
                link == MdLink("Example", u)
            IN  (/\ UrlCount(text) = 1
                 /\ \E i \in 1..Len(text) :
                        /\ i + Len(link) - 1 <= Len(text)
                        /\ SubSeq(text, i, i + Len(link) - 1) = link)
                    => extracted = <<[url |-> <<u>>, title |-> <<"Example">>,
                                      type |-> "web_link"]>>

----------------------------------------------------------------------------
(* Properties of the event stream *)

LastEvent == events[Len(events)]

IsTerminal(ev) == ev.type \in {"complete", "error"}

TerminalCount == Cardinality({i \in 1..Len(events) : IsTerminal(events[i])})

\* C16: in a stream that runs without failure there is one message event per
\* message the agent produced, in the agent's order and each carrying that
\* one message, followed by exactly one complete event, which is the last
\* event; at no time does a message event follow a complete event.
C16_MessageEventsInOrder ==
    /\ \A i \in 1..Len(events) :
            events[i].type = "complete" => i = Len(events)
    /\ (stream_pc = "done" /\ stream_raised = "none") =>
            /\ Len(events) = Len(agent_log) + 1
            /\ uuids = Len(agent_log)
            /\ \A i \in 1..Len(agent_log) :
                /\ events[i].type = "message"
                /\ events[i].data.role = agent_log[i].role
                /\ events[i].data.content = content_text(agent_log[i].content)
            /\ LastEvent.type = "complete"

\* A finished stream of three messages, the first two not alike.
C16_Witness ==
    /\ stream_pc = "done"
    /\ stream_raised = "none"
    /\ Len(agent_log) = MaxMessages
    /\ agent_log[1].role # agent_log[2].role

\* C17: a stream has at most one terminal event (complete or error), a
\* terminal event is the last event, and a stream has ended exactly when it
\* has one.  When the agent loop or the conversion raised, the terminal event
\* is an error event and there is no complete event; otherwise it is a
\* complete event.
C17_OneTerminalEvent ==
    /\ TerminalCount <= 1
    /\ \A i \in 1..Len(events) : IsTerminal(events[i]) => i = Len(events)
    /\ stream_pc = "done" <=> TerminalCount = 1
    /\ stream_raised # "none" =>
            /\ stream_pc = "done"
            /\ LastEvent.type = "error"
            /\ \A i \in 1..Len(events) : events[i].type # "complete"
    /\ (stream_pc = "done" /\ stream_raised = "none") => LastEvent.type = "complete"

\* The conversion of the third message raised after two message events.
C17_Witness ==
    /\ stream_pc = "done"
    /\ stream_raised = "conversion"
    /\ Len(events) = 3
    /\ LastEvent.type = "error"

\* The sources attached to the message events, concatenated in order.
RECURSIVE EventSources(_)
EventSources(evs) ==
    IF evs = <<>> THEN <<>>
    ELSE (IF Head(evs).type = "message" /\ Head(evs).data.sources.some
          THEN Head(evs).data.sources.val
          ELSE <<>>) \o EventSources(Tail(evs))

\* The names of the tools whose results the agent produced in the session.
ToolsUsedInSession ==
    {agent_log[i].name : i \in {j \in 1..Len(agent_log) : agent_log[j].role = "function"}}

\* C18: the complete event carries the concatenation, in order, of the
\* sources attached to the emitted message events, and the distinct names of
\* exactly the tools that were used in the session.
C18_CompleteSummary ==
    (stream_pc = "done" /\ LastEvent.type = "complete") =>
        LET tools_used == LastEvent.data.tools_used
        IN  /\ LastEvent.data.sources = EventSources(events)
            /\ {tools_used[i] : i \in 1..Len(tools_used)} = ToolsUsedInSession
            /\ \A i, j \in 1..Len(tools_used) :
                    i # j => tools_used[i] # tools_used[j]

----------------------------------------------------------------------------
(* Properties of the event loop *)

\* C15: while one session is in retry backoff, every other session that is
\* waiting to start or to go on after an event can be run by the event loop:
\* the backoff suspends only the task of the session that is backing off.
C15_BackoffSuspendsOnlyCaller ==
    \A s, t \in Sessions :
        (/\ s # t
         /\ task_pc[s] = "backoff"
         /\ task_pc[t] \in {"start", "suspended"}) => ENABLED loop_run(t)

----------------------------------------------------------------------------
(* Further properties of the source extraction *)

\* The host of each URL token.
UrlHost(tok) == IF tok = UrlWww THEN "www.z.org" ELSE "y.com"

\* C21: for a plain text with one URL and no Markdown label, the result is
\* one source whose title is the host of the URL, also when the host starts
\* with www.
C21_BareUrlTitleIsHost ==
    (extract_pc = "returned" /\ ~tool_output.json) =>
        \A u \in UrlTokens :
            LET text == tool_output.tokens
            IN  (/\ UrlCount(text) = 1
                 /\ Contains(text, u)
                 /\ ~Contains(text, LBracket))
                    => /\ Len(extracted) = 1
                       /\ extracted[1].title = <<UrlHost(u)>>

----------------------------------------------------------------------------
(* Properties of the helper functions *)

\* C22: converting an internal message with a system, user, assistant or
\* function role to the API Message and back gives a message with the same
\* role and the same content text and, for a function message, the same tool
\* name.
C22_RoundTrip ==
    (call_fn = "round_trip" /\ call_pc = "returned") =>
        /\ call_result.role = call_args.role
        /\ content_text(call_result.content) = content_text(call_args.content)
        /\ call_args.role = "function" => call_result.name = call_args.name

\* The round trip of a search result given as a list content.
C22_Witness ==
    /\ call_fn = "round_trip"
    /\ call_pc = "returned"
    /\ call_args.role = "function"
    /\ call_args.name = "search"
    /\ call_args.content.kind = "list"
    /\ call_result.name = "search"

----------------------------------------------------------------------------
(* Properties of a cancelled session *)

----------------------------------------------------------------------------
(* Properties of concurrent sessions *)

\* C24: under every interleaving of two sessions on the shared agent, the
\* log, iteration_count, tools_used, final_answer and is_complete a session
\* returns with are those it has when it runs alone.
C24_SessionsIsolated ==
    \A t \in Sessions :
        tasks[t].pc = "returned" =>
            LET alone == alone_state(t, tasks[t].script)
                mine  == tasks[t].state
            IN  /\ mine.messages = alone.messages
                /\ mine.iteration_count = alone.iteration_count
                /\ mine.tools_used = alone.tools_used
                /\ mine.final_answer = alone.final_answer
                /\ mine.is_complete = alone.is_complete

----------------------------------------------------------------------------
(* Properties of the tools *)

\* C25: for every tool and every argument bag, execute does not raise to
\* its caller: it returns a ToolResult, and a failed one carries an error
\* message.
C25_ExecuteNeverRaises ==
    (call_fn = "execute" /\ call_pc # "call") =>
        /\ call_pc = "returned"
        /\ ~call_result.raised
        /\ ~call_result.success => call_result.error # ""

----------------------------------------------------------------------------
(* Properties of the answer delimiters *)

\* C26: when the model's response holds the opening delimiter and no closing
\* delimiter, the step completes the session, and the final answer is the
\* whole content after the opening delimiter.
C26_LenientAnswer ==
    [][ (/\ pc = "researcher_reason"
         /\ Len(state'.messages) = Len(state.messages) + 1
         /\ Contains(state'.messages[Len(state'.messages)].content, OpenTag)
         /\ ~Contains(state'.messages[Len(state'.messages)].content, CloseTag))
        => LET content == state'.messages[Len(state'.messages)].content
               rest    == SubSeq(content, Find(content, OpenTag) + 1, Len(content))
           IN  /\ state'.is_complete
               /\ state'.final_answer.some
               /\ strip(state'.final_answer.val) = strip(rest) ]_vars

----------------------------------------------------------------------------
(* Properties of the log *)

\* C27: no step changes a message that is already in the log: every step
\* leaves the role and the content of each logged message as they were, and
\* only appends to the log.
C27_LogAppendOnly ==
    [][ /\ Len(state'.messages) >= Len(state.messages)
        /\ \A i \in 1..Len(state.messages) :
              /\ state'.messages[i].type = state.messages[i].type
              /\ state'.messages[i].content = state.messages[i].content ]_vars

----------------------------------------------------------------------------
(* Properties of the responses *)

\* C28: in the messages list of one response no two messages have the same
\* id, whatever their contents.
C28_DistinctIds ==
    (call_fn = "response" /\ call_pc = "returned") =>
        \A i, j \in 1..Len(call_result) :
            i # j => call_result[i].id # call_result[j].id

----------------------------------------------------------------------------
(* Properties of the entry node *)

HasSystemMessage(messages) == \E i \in 1..Len(messages) : messages[i].type = "system"

\* C29: the entry node puts a system message at the head of the log exactly
\* when the log has none, keeps the messages it finds in their order, sets
\* tools_used to empty, iteration_count to 0 and is_complete to false, and
\* is followed by the reasoning node.
C29_Initialize ==
    [][ pc = "researcher_initialize" =>
            /\ IF HasSystemMessage(state.messages)
               THEN state'.messages = state.messages
               ELSE /\ Len(state'.messages) = Len(state.messages) + 1
                    /\ state'.messages[1].type = "system"
                    /\ SubSeq(state'.messages, 2, Len(state'.messages)) = state.messages
            /\ state'.tools_used = <<>>
            /\ state'.iteration_count = 0
            /\ state'.is_complete = FALSE
            /\ pc' = "researcher_reason" ]_vars

C29_Witness ==
    /\ pc = "researcher_reason"
    /\ llm_calls = 0
    /\ Len(state.messages) = 2
    /\ state.messages[1].type = "human"
    /\ state.messages[2].type = "system"
    /\ state.tools_used = <<>>
    /\ state.iteration_count = 0
    /\ ~state.is_complete
    /\ state.final_answer = Some(<<"old">>)

----------------------------------------------------------------------------
(* Properties of a turn without content *)

\* C30: a reasoning step whose response has empty content and no tool calls
\* adds exactly 1 to iteration_count, leaves is_complete and final_answer as
\* they were, and is followed by the reasoning node again.
C30_EmptyTurn ==
    [][ (/\ pc = "researcher_reason"
         /\ Len(state'.messages) = Len(state.messages) + 1
         /\ state'.messages[Len(state'.messages)].content = <<>>
         /\ state'.messages[Len(state'.messages)].tool_calls = <<>>)
        => /\ state'.iteration_count = state.iteration_count + 1
           /\ state'.is_complete = state.is_complete
           /\ state'.final_answer = state.final_answer
           /\ pc' = "researcher_reason" ]_vars

C30_Witness ==
    /\ pc = "researcher_reason"
    /\ state.iteration_count = 1
    /\ llm_calls = 1
    /\ state.messages[Len(state.messages)].type = "ai"
    /\ state.messages[Len(state.messages)].content = <<>>
    /\ state.messages[Len(state.messages)].tool_calls = <<>>
    /\ ~state.is_complete
    /\ state.final_answer = None

----------------------------------------------------------------------------
(* Properties of a tool dispatch turn *)

\* C31: a dispatch turn with n declared tool calls appends exactly n messages
\* to the log, the i-th carrying the id of the i-th declared call; no model
\* call is made during the turn, the reasoning node runs next, and the log
\* then ends with a message that declares no call, so that no call of the
\* turn is dispatched again.
C31_DispatchTurn ==
    [][ pc = "tool_executor_execute" =>
          LET calls == last_tool_calls(state.messages)
              base  == Len(state.messages)
          IN  /\ Len(state'.messages) = base + Len(calls)
              /\ \A i \in 1..base : state'.messages[i] = state.messages[i]
              /\ \A i \in 1..Len(calls) :
                    state'.messages[base + i].tool_call_id = calls[i].id
              /\ Len(state'.tools_used) <= Len(state.tools_used) + Len(calls)
              /\ llm_calls' = llm_calls
              /\ dispatch_turns' = dispatch_turns + 1
              /\ last_tool_calls(state'.messages) = <<>>
              /\ pc' = "researcher_reason" ]_vars

C31_Witness ==
    /\ pc = "researcher_reason"
    /\ dispatch_turns = 1
    /\ Len(state.messages) >= 5
    /\ Len(state.messages[Len(state.messages) - 2].tool_calls) = 2
    /\ state.messages[Len(state.messages) - 1].tool_call_id = "c1"
    /\ state.messages[Len(state.messages)].tool_call_id = "c2"
    /\ state.tools_used = <<"search", "python_interpreter">>

----------------------------------------------------------------------------
(* Properties of the aggregated stream *)

\* The chunk the last iteration of the loop read.
LastChunk == consumed'[Len(consumed')]

\* An iteration of the aggregating loop that ran to its end.
AggregateStep ==
    /\ chat_pc = "aggregate"
    /\ chat_pc' = "aggregate"
    /\ Len(consumed') = Len(consumed) + 1

\* C32: while aggregating, the iteration for a delta yields a chunk exactly
\* when, with the delta added, the content buffer or the reasoning buffer
\* holds 50 characters or more, or the delta's content or reasoning has a
\* newline; a yield empties both buffers; after every iteration each buffer
\* holds fewer than 50 characters.
C32_FlushRule ==
    /\ [](chat_pc \in {"aggregate", "finished"} =>
            /\ TextLen(content_buffer) < 50
            /\ TextLen(reasoning_content_buffer) < 50)
    /\ [][ AggregateStep =>
            LET cbuf == content_buffer \o LastChunk.content
                            \o (IF LastChunk.choices /\ LastChunk.tool = "call"
                                THEN <<ToolCallOpen>> ELSE <<>>)
                rbuf == reasoning_content_buffer \o LastChunk.reasoning
                due  == \/ TextLen(cbuf) >= 50
                        \/ TextLen(rbuf) >= 50
                        \/ Contains(LastChunk.content, Newline)
                        \/ Contains(LastChunk.reasoning, Newline)
            IN  /\ Len(yielded') = Len(yielded) + (IF due THEN 1 ELSE 0)
                /\ due => content_buffer' = <<>> /\ reasoning_content_buffer' = <<>>
                /\ ~due => content_buffer' = cbuf /\ reasoning_content_buffer' = rbuf ]_vars

C32_Witness ==
    /\ chat_pc = "aggregate"
    /\ Len(consumed) = 2
    /\ consumed[1].reasoning = <<"a">>
    /\ consumed[2].reasoning = <<Newline>>
    /\ Len(yielded) = 1
    /\ yielded[1].reasoning_content = <<"a", Newline>>
    /\ reasoning_content_buffer = <<>>

\* The rendered tool call: <tool_call>{"name": ..., "arguments": ...}</tool_call>
ToolCallText == <<ToolCallOpen, FunctionJson, ToolCallEnd>>

EndsWith(text, tail) ==
    /\ Len(text) >= Len(tail)
    /\ SubSeq(text, Len(text) - Len(tail) + 1, Len(text)) = tail

\* C33: in both streaming modes, the iteration that reads a delta with a tool
\* call yields a unit for it: a message is yielded in that iteration, and the
\* content of the last message yielded ends with the rendered tool call.
C33_ToolCallFlushed ==
    [][ (/\ chat_pc \in {"delta", "aggregate"}
         /\ chat_pc' = chat_pc
         /\ Len(consumed') = Len(consumed) + 1
         /\ LastChunk.choices
         /\ LastChunk.tool = "call")
        => /\ Len(yielded') > Len(yielded)
           /\ EndsWith(yielded'[Len(yielded')].content, ToolCallText) ]_vars

\* The content of all deltas read, with the rendered tool call in the place
\* of each tool-call delta, and their reasoning.
RECURSIVE AllContent(_)
AllContent(chunks) ==
    IF chunks = <<>> THEN <<>>
    ELSE Head(chunks).content
            \o (IF Head(chunks).tool = "call" THEN ToolCallText ELSE <<>>)
            \o AllContent(Tail(chunks))

RECURSIVE AllReasoning(_)
AllReasoning(chunks) ==
    IF chunks = <<>> THEN <<>>
    ELSE Head(chunks).reasoning \o AllReasoning(Tail(chunks))

IsPrefix(a, b) == Len(a) <= Len(b) /\ SubSeq(b, 1, Len(a)) = a

\* C34: when an aggregated stream has ended and its deltas held any content,
\* reasoning or tool call, the last chunk yielded holds all the content with
\* the rendered tool calls and all the reasoning; at any time the content of
\* each chunk yielded starts with the content of the chunk before it.
C34_ResidualFlushed ==
    ~delta_stream =>
        /\ (chat_pc = "finished"
              /\ (AllContent(consumed) # <<>> \/ AllReasoning(consumed) # <<>>))
            => /\ yielded # <<>>
               /\ yielded[Len(yielded)].content = AllContent(consumed)
               /\ yielded[Len(yielded)].reasoning_content = AllReasoning(consumed)
        /\ \A i \in 1..(Len(yielded) - 1) :
              IsPrefix(yielded[i].content, yielded[i + 1].content)

C34_Witness ==
    /\ ~delta_stream
    /\ chat_pc = "finished"
    /\ Len(consumed) = 2
    /\ consumed[1].tool = "call"
    /\ consumed[2].content = <<"a">>
    /\ Len(yielded) = 1
    /\ yielded[1].content = ToolCallText \o <<"a">>

----------------------------------------------------------------------------
(* Properties of the fallback of the source extraction *)

\* C35: when the tool output is not a JSON list, be it a text json.loads
\* rejects or the JSON document of an object, a string or a number, the
\* result holds one source per URL of the raw text, each tagged web_link.
C35_FallbackScan ==
    (extract_pc = "returned" /\ ~(tool_output.json /\ tool_output.value.list)) =>
        /\ Len(extracted) = UrlCount(tool_output.tokens)
        /\ \A i \in 1..Len(extracted) : extracted[i].type = "web_link"

----------------------------------------------------------------------------
(* Properties of tools_used *)

NoDuplicates(names) ==
    \A i, j \in 1..Len(names) : i # j => names[i] # names[j]

\* C36: in every state of a session, and in the result returned to the
\* caller, no tool name is in tools_used more than once.
C36_ToolsUsedIsSet ==
    /\ NoDuplicates(state.tools_used)
    /\ NoDuplicates(result.tools_used)

----------------------------------------------------------------------------
(* Properties of the reasoning step *)

\* A reasoning step in which the model was called and returned a response.
ResponseStep ==
    /\ pc = "researcher_reason"
    /\ llm_calls' = llm_calls + 1
    /\ llm_failed' = llm_failed

IsThinking(message) == message.type = "human" /\ message.content = ThinkingPrompt

\* C37: a reasoning step that gets a response adds one message to the log,
\* the response, and no other; with reasoning mode on, the thinking
\* instruction is the last message of the input of that model call, and in
\* no state is it a message of the log, which is what research() returns.
C37_ThinkingNotLogged ==
    /\ [](\A i \in 1..Len(state.messages) : ~IsThinking(state.messages[i]))
    /\ [][ ResponseStep =>
            /\ Len(state'.messages) = Len(state.messages) + 1
            /\ state'.messages[Len(state'.messages)].type = "ai"
            /\ \A i \in 1..Len(state.messages) :
                  state'.messages[i].type = state.messages[i].type
            /\ IF reasoning
               THEN /\ Len(llm_input') = Len(state.messages) + 1
                    /\ IsThinking(llm_input'[Len(llm_input')])
               ELSE llm_input' = state.messages ]_vars

C37_Witness ==
    /\ reasoning
    /\ pc = "returned"
    /\ llm_calls = 2
    /\ IsThinking(llm_input[Len(llm_input)])
    /\ Len(llm_input) = 4
    /\ Len(state.messages) = 4
    /\ state.messages[3].type = "ai"
    /\ state.messages[4].type = "ai"

\* The number of model responses in a log: the messages researcher_reason
\* appended, which answer no tool call.
RECURSIVE ResponseCount(_)
ResponseCount(messages) ==
    IF messages = <<>> THEN 0
    ELSE (IF Head(messages).type = "ai" /\ Head(messages).tool_call_id = NoId
          THEN 1 ELSE 0) + ResponseCount(Tail(messages))

\* A reasoning step in which the model call raised, or in which the budget
\* was found exhausted and no call was made.
FailedOrExhaustedStep ==
    /\ pc = "researcher_reason"
    /\ \/ ~llm_failed /\ llm_failed'
       \/ llm_calls' = llm_calls

\* C38: a reasoning step whose model call fails, and the budget-exhausted
\* step, leave iteration_count, the log and tools_used as they were; in
\* every state iteration_count is the number of model responses in the log.
C38_FailureLeavesState ==
    /\ [](state.iteration_count = ResponseCount(state.messages))
    /\ [][ FailedOrExhaustedStep =>
            /\ state'.iteration_count = state.iteration_count
            /\ state'.messages = state.messages
            /\ state'.tools_used = state.tools_used ]_vars

\* The message of a call whose tool was found and returned a ToolResult: the
\* result's content, or "Tool error: <error>" for a failed result.
IsToolResult(message) ==
    \/ message.content = ResultContent
    \/ message.content = <<"Tool error: ", ResultError>>

\* The names of the calls, in order, whose messages are tool results.
RECURSIVE ResultNames(_, _)
ResultNames(calls, messages) ==
    IF calls = <<>> THEN <<>>
    ELSE (IF IsToolResult(Head(messages)) THEN <<Head(calls).name>> ELSE <<>>)
            \o ResultNames(Tail(calls), Tail(messages))

\* C39: a dispatch turn adds to tools_used the name of each call whose tool
\* was found and returned a ToolResult, successful or failed, and of no
\* other call: not of a call whose tool was not found or whose execute
\* raised.
C39_ToolsUsedRule ==
    [][ pc = "tool_executor_execute" =>
          LET calls == last_tool_calls(state.messages)
              added == SubSeq(state'.messages, Len(state.messages) + 1,
                              Len(state'.messages))
          IN  /\ Len(added) = Len(calls)
              /\ state'.tools_used = state.tools_used \o ResultNames(calls, added) ]_vars

C39_Witness ==
    /\ pc = "researcher_reason"
    /\ dispatch_turns = 1
    /\ state.tools_used = <<"search">>
    /\ Len(state.messages) >= 5
    /\ state.messages[Len(state.messages) - 2].tool_calls =
            <<ToolCall("search", "c1"), ToolCall("python_interpreter", "c2")>>
    /\ state.messages[Len(state.messages) - 1].content = <<"Tool error: ", ResultError>>
    /\ state.messages[Len(state.messages)].content = <<"Tool execution failed: ", RaisedError>>


\* The outcome of the latest provider call of the request.
LastOutcome == provider_log[Len(provider_log)].outcome

\* C40: a non-streaming completion makes exactly one provider call and never
\* sleeps or retries: it has made no call before its step and exactly one,
\* with stream=False, after it; it returns one message when the call
\* succeeds and raises ModelServiceError when the provider signals a rate
\* limit or any other error.  A streaming completion makes at most
\* MAX_RETRIES calls: a rate-limit signal before the last attempt leaves it
\* in the retry loop, and one that raises ModelServiceError is the fifth.
C40_NoStreamSingleCall ==
    /\ chat_pc = "no_stream" => provider_calls = 0 /\ raised = "none"
    /\ chat_pc \in {"no_stream_returned", "no_stream_raised"} =>
        /\ provider_calls = 1
        /\ Len(provider_log) = 1
        /\ provider_log[1].request.stream = FALSE
        /\ sleeps = 0
        /\ attempt = 0
        /\ (LastOutcome = "ok") <=> (chat_pc = "no_stream_returned")
        /\ (LastOutcome \in {"rate_limit", "openai_error"}) <=> (chat_pc = "no_stream_raised")
    /\ chat_pc = "no_stream_returned" => raised = "none" /\ Len(yielded) = 1
    /\ chat_pc = "no_stream_raised" => raised = "ModelServiceError" /\ yielded = <<>>
    /\ (chat_pc \notin NoStreamPcs /\ provider_log # <<>>) =>
        /\ provider_calls <= MAX_RETRIES
        /\ \A i \in 1..Len(provider_log) : provider_log[i].request.stream = TRUE
        /\ (LastOutcome = "rate_limit" /\ provider_calls < MAX_RETRIES) =>
                chat_pc = "retry" /\ raised = "none" /\ sleeps = rate_limits
        /\ (LastOutcome = "rate_limit" /\ raised = "ModelServiceError") =>
                provider_calls = MAX_RETRIES

\* A non-streaming request whose only call met a rate limit has raised.
C40_Witness ==
    /\ chat_pc = "no_stream_raised"
    /\ provider_calls = 1
    /\ rate_limits = 1
    /\ provider_log[1].outcome = "rate_limit"
    /\ raised = "ModelServiceError"


====
